---- MODULE Spec2Model ----
(***************************************************************************)
(* Model of the Device Security Assessment Engine of                       *)
(* mobile-security-automation:                                             *)
(*   - SecurityChecker.calculateOverallAssessment and                      *)
(*     DeviceDetector.calculateRiskScore (weighted scoring),               *)
(*   - FileManipulator.monitorFileIntegrity (polling monitor),             *)
(*   - FileManipulator.createBackup / restoreFromBackup / modifyConfig /   *)
(*     tamperWithFile (backup store).                                      *)
(*                                                                         *)
(* Numbers: the JavaScript code works on doubles. Weights are kept here in *)
(* hundredths (0.4 -> 40) and a quotient n/d is kept as the pair (n, d),   *)
(* so every comparison and Math.round is computed exactly.                 *)
(***************************************************************************)
EXTENDS Integers, Sequences, FiniteSets, TLC

VARIABLES
    \* ---- scoring (SecurityChecker / DeviceDetector) ----
    scorePc,        \* "validated" | "assessed" | "analyzed" | "risk_scored"
    validation,     \* the argument of calculateOverallAssessment
    assessment,     \* its return value
    analysis,       \* the argument of calculateRiskScore
    riskAssessment, \* its return value
    \* ---- the device and the FileManipulator instance ----
    device,         \* remote path -> file on the device
    shellUp,        \* whether device-shell commands currently succeed
    monitoredFiles, \* this.monitoredFiles
    \* ---- monitorFileIntegrity ----
    mon,            \* monitor call -> its locals, timers and returned result
    initialChecksums, \* map owner -> the Map `initialChecksums`, in insertion order
    \* ---- the backup store (createBackup / restoreFromBackup / ...) ----
    localFs,        \* local file name -> file in tmp/ and tmp/backups/
    checksums,      \* this.checksums: backup name -> record
    now,            \* Date.now()
    calls,          \* call slot -> the locals and the result of its call
    ncalls,         \* number of calls made so far
    touched,        \* backup files written by someone else since their pull
    snapshot,       \* backup name -> what its last completed backup captured
    \* ---- detection (DeviceDetector / SecurityChecker / ADBHelper) ----
    evidence,       \* what the device's shell answers to each probe
    detectionCache, \* this.detectionCache: key -> { data, timestamp }
    lastRun,        \* the detection that returned last, and its result
    settled         \* what happened since the evidence last changed:
                    \* "run" a detection, a cache key: that entry's collection

scoreVars == <<scorePc, validation, assessment, analysis, riskAssessment>>
monVars == <<mon, initialChecksums>>
devVars == <<device, shellUp, monitoredFiles>>
storeVars == <<localFs, checksums, now, calls, ncalls, touched, snapshot>>

detVars == <<evidence, detectionCache, lastRun, settled>>

vars == <<scoreVars, devVars, monVars, storeVars, detVars>>

(***************************************************************************)
(* Bounds of the model                                                     *)
(***************************************************************************)
\* most environment checks that report risk 'high' or 'medium' in one input
MaxEnvIssues == 2
\* most files in a file-integrity summary
MaxFiles == 2
\* most risky apps / network risk indicators in a device analysis
MaxRiskItems == 4
\* longest monitoring duration, in polling intervals
MaxPolls == 2
\* most calls made to the backup store in one run
MaxCalls == 3
\* last value of the millisecond clock
MaxTime == 1
\* most lines of a device file
MaxLines == 2

(***************************************************************************)
(* Program constants                                                       *)
(***************************************************************************)
WeightDevice == 40        \* 0.4
WeightApplication == 25   \* 0.25
WeightEnvironment == 20   \* 0.2
WeightFileIntegrity == 10 \* 0.1
WeightNetwork == 5        \* 0.05
NumSecurityFeatures == 7  \* features checked by checkSecurityFeatures
PollIntervalMs == 5000    \* setInterval(..., 5000)

(***************************************************************************)
(* Arithmetic helpers                                                      *)
(***************************************************************************)
Max(a, b) == IF a >= b THEN a ELSE b
Min(a, b) == IF a <= b THEN a ELSE b

\* Math.round(n/d) for d > 0: the integer nearest to n/d, halves rounded up.
MathRound(n, d) == (2 * n + d) \div (2 * d)

RECURSIVE SumSeq(_, _)
\* sum of score * weight (withScore) or of weight over the factor records
SumSeq(s, withScore) ==
    IF s = <<>> THEN 0
    ELSE (IF withScore THEN Head(s).score * Head(s).weight ELSE Head(s).weight)
         + SumSeq(Tail(s), withScore)

(***************************************************************************)
(* Files and checksums                                                     *)
(* A file content is a sequence of lines; a line is `key=value` or, with   *)
(* an empty key, a raw line of text.  SHA-256 is taken to be free of       *)
(* collisions on the contents of the model: the digest of a content is a   *)
(* value that names the content it was computed from and nothing else.     *)
(***************************************************************************)
Paths == {"p1", "p2"}

PropLine(k, v) == [key |-> k, value |-> v]
RawLine(t) == [key |-> "", value |-> t]

File(c) == [exists |-> TRUE, content |-> c]
NoFile == [exists |-> FALSE, content |-> <<>>]

OriginalContent == <<PropLine("debug", "false")>>
ChangedContent == <<PropLine("debug", "true")>>
\* what an actor outside the FileManipulator may write to a device file
EnvContents == {OriginalContent, ChangedContent}

Sha256(content) == [algo |-> "sha256", of |-> content]
Null == [algo |-> "null", of |-> <<>>]

\* calculateRemoteFileChecksum(filePath): `sha256sum` through the device
\* shell; null when the shell call fails (device unreachable) or the file
\* is missing (sha256sum exits non-zero).
calculateRemoteFileChecksum(filePath) ==
    IF shellUp /\ device[filePath].exists
    THEN Sha256(device[filePath].content)
    ELSE Null

DeviceIdle ==
    /\ device = [p \in Paths |-> File(OriginalContent)]
    /\ shellUp = TRUE
    /\ monitoredFiles = {}

\* another actor (the application, a test step) rewrites a device file
EnvDeviceWrite(p, c) ==
    /\ device[p] # File(c)
    /\ device' = [device EXCEPT ![p] = File(c)]
    /\ UNCHANGED shellUp

\* the device becomes unreachable (adb fails or times out), or comes back
EnvShellToggle ==
    /\ shellUp' = ~shellUp
    /\ UNCHANGED device

(***************************************************************************)
(* monitorFileIntegrity(filePaths, duration)                               *)
(*                                                                         *)
(* Every device-shell call is execSync, so each `await` of the function    *)
(* and of the interval callback is resumed as a microtask: a timer         *)
(* callback starts only when no such chain is running (LoopFree).  The     *)
(* device itself is outside the process and may change between any two     *)
(* shell calls.                                                            *)
(***************************************************************************)
MonIds == {"m1", "m2"}
FilePathLists == {<<"p1">>, <<"p1", "p2">>}
Durations == {k * PollIntervalMs : k \in 0..MaxPolls}

IdleMonitor ==
    [st |-> "idle", filePaths |-> <<>>, idx |-> 0, duration |-> 0,
     changes |-> <<>>, intervalActive |-> FALSE, timeoutPending |-> FALSE,
     ticks |-> 0, tickPos |-> 0, resolved |-> FALSE, cancelled |-> FALSE]

MonIdle ==
    /\ mon = [m \in MonIds |-> IdleMonitor]
    /\ initialChecksums = [m \in MonIds |-> <<>>]

\* a plausible slip: one Map shared by every call (a field of the instance)
SharedMap(m) == "m1"

\* `const initialChecksums = new Map()`: each call owns the Map it creates
OwnMap(m) == m

RECURSIVE MapIndex(_, _, _)
\* position of key k in the entries es from position i on, 0 if absent
MapIndex(es, k, i) ==
    IF i > Len(es) THEN 0
    ELSE IF es[i].filePath = k THEN i ELSE MapIndex(es, k, i + 1)

\* Map.prototype.set: a new key is appended, an existing key keeps its place
MapSet(es, k, v) ==
    LET i == MapIndex(es, k, 1)
    IN  IF i = 0 THEN Append(es, [filePath |-> k, checksum |-> v])
        ELSE [es EXCEPT ![i].checksum = v]

\* a plausible slip: the baseline entry is not replaced after a change
BaselineKept(es, k, v) == es

\* a plausible slip: the new checksum written to every entry of the Map
BaselineOverwritten(es, k, v) == [i \in 1..Len(es) |-> [es[i] EXCEPT !.checksum = v]]

\* `initialChecksums.set(filePath, currentChecksum)` in the polling callback
BaselineUpdated(es, k, v) == MapSet(es, k, v)

\* no microtask chain of a monitor call or of a polling callback is running
LoopFree == \A m \in MonIds : mon[m].st # "init" /\ mon[m].tickPos = 0

\* the call: the loop over filePaths starts (calls are numbered in the
\* order they are made)
MonitorCall(m, filePaths, duration) ==
    /\ mon[m].st = "idle"
    /\ m = "m2" => mon["m1"].st # "idle"
    /\ \A o \in MonIds : mon[o].tickPos = 0
    /\ mon' = [mon EXCEPT ![m] =
                 [@ EXCEPT !.st = "init", !.filePaths = filePaths, !.idx = 1,
                           !.duration = duration]]
    /\ initialChecksums' = [initialChecksums EXCEPT ![OwnMap(m)] = <<>>]
    /\ UNCHANGED <<devVars, scoreVars, detVars, storeVars>>

\* one iteration of `for (const filePath of filePaths)`; after the last one
\* the timers are set and the call returns { success, monitoredFiles, changes }
MonitorInitStep(m) ==
    /\ mon[m].st = "init"
    /\ LET filePath == mon[m].filePaths[mon[m].idx]
           checksum == calculateRemoteFileChecksum(filePath)
           last == mon[m].idx = Len(mon[m].filePaths)
       IN   /\ IF checksum # Null
               THEN /\ initialChecksums' =
                          [initialChecksums EXCEPT ![OwnMap(m)] =
                              MapSet(@, filePath, checksum)]
                    /\ monitoredFiles' = monitoredFiles \cup {filePath}
               ELSE UNCHANGED <<initialChecksums, monitoredFiles>>
            /\ mon' = [mon EXCEPT ![m] =
                         IF last
                         THEN [@ EXCEPT !.idx = @ + 1, !.st = "polling",
                                        !.changes = <<>>,
                                        !.intervalActive = TRUE,
                                        !.timeoutPending = TRUE,
                                        !.resolved = TRUE]
                         ELSE [@ EXCEPT !.idx = @ + 1]]
    /\ UNCHANGED <<device, shellUp, scoreVars, detVars, storeVars>>

\* the setInterval callback starts: the iteration over the Map begins
MonitorTick(m) ==
    /\ LoopFree
    /\ mon[m].intervalActive
    /\ (mon[m].ticks + 1) * PollIntervalMs <= mon[m].duration
    /\ mon' = [mon EXCEPT ![m] =
                 [@ EXCEPT !.ticks = @ + 1,
                           !.tickPos = IF Len(initialChecksums[OwnMap(m)]) > 0
                                       THEN 1 ELSE 0]]
    /\ UNCHANGED <<initialChecksums, devVars, scoreVars, detVars, storeVars>>

\* one iteration of `for (const [filePath, originalChecksum] of initialChecksums)`
MonitorPoll(m) ==
    /\ mon[m].tickPos > 0
    /\ LET entries == initialChecksums[OwnMap(m)]
           entry == entries[mon[m].tickPos]
           currentChecksum == calculateRemoteFileChecksum(entry.filePath)
           changed == currentChecksum # Null /\ currentChecksum # entry.checksum
           next == IF mon[m].tickPos < Len(entries) THEN mon[m].tickPos + 1 ELSE 0
       IN   /\ mon' = [mon EXCEPT ![m] =
                         [@ EXCEPT !.tickPos = next,
                                   !.changes =
                                       IF changed
                                       THEN Append(@, [filePath |-> entry.filePath,
                                                       originalChecksum |-> entry.checksum,
                                                       currentChecksum |-> currentChecksum])
                                       ELSE @]]
            /\ initialChecksums' =
                  IF changed
                  THEN [initialChecksums EXCEPT ![OwnMap(m)] =
                          BaselineUpdated(@, entry.filePath, currentChecksum)]
                  ELSE initialChecksums
    /\ UNCHANGED <<devVars, scoreVars, detVars, storeVars>>

\* the setTimeout callback: clearInterval(monitorInterval)
MonitorExpire(m) ==
    /\ LoopFree
    /\ mon[m].timeoutPending
    /\ mon[m].duration <= (mon[m].ticks + 1) * PollIntervalMs
    /\ mon' = [mon EXCEPT ![m] =
                 [@ EXCEPT !.intervalActive = FALSE, !.timeoutPending = FALSE,
                           !.st = "stopped"]]
    /\ UNCHANGED <<initialChecksums, devVars, scoreVars, detVars, storeVars>>

\* the caller wants the monitoring stopped: monitorFileIntegrity(filePaths,
\* duration) takes no token and hands out no handle of its timers, so the
\* wish is noted and nothing of the call changes
MonitorCancel(m) ==
    /\ mon[m].st = "polling"
    /\ ~mon[m].cancelled
    /\ mon' = [mon EXCEPT ![m] = [@ EXCEPT !.cancelled = TRUE]]
    /\ UNCHANGED <<initialChecksums, devVars, scoreVars, detVars, storeVars>>

MonDeviceWrite ==
    /\ \E p \in Paths, c \in EnvContents : EnvDeviceWrite(p, c)
    /\ UNCHANGED <<monitoredFiles, monVars, scoreVars, detVars, storeVars>>

MonShellToggle ==
    /\ EnvShellToggle
    /\ UNCHANGED <<monitoredFiles, monVars, scoreVars, detVars, storeVars>>

(***************************************************************************)
(* The backup store: createBackup, restoreFromBackup, modifyConfig,        *)
(* tamperWithFile.                                                         *)
(*                                                                         *)
(* adb pull / push / shell are execSync and run inside the step that       *)
(* reaches them.  fs.readFile, fs.writeFile and fs.remove are real         *)
(* asynchronous I/O: the operation on the file happens in one step (the    *)
(* I/O), the code after the `await` runs in a later step (the              *)
(* continuation), and other callbacks and other processes may run in       *)
(* between.                                                                *)
(***************************************************************************)
Slots == {"c1", "c2"}
Times == 0..MaxTime

\* local file names: the caller's backup name, `config_backup_${Date.now()}`,
\* `tamper_backup_${Date.now()}`, `temp_config_${Date.now()}`
Name(kind, t) == [kind |-> kind, t |-> t]
NoName == Name("none", 0)
UserNames == {Name("user", 0)}
BackupNames ==
    UserNames \cup {Name(k, t) : k \in {"config_backup", "tamper_backup"}, t \in Times}
TempNames == {Name("temp_config", t) : t \in Times}
LocalNames == BackupNames \cup TempNames

ConfigFormats == {"properties", "json", "yaml"}
TamperTypes == {"corrupt", "replace_content", "shred"}
ConfigKey == "debug"
ConfigValue == "true"

\* what another process may leave in a local backup file
CorruptedBackup == <<RawLine("garbage")>>

NoRecord ==
    [present |-> FALSE, originalPath |-> "", localPath |-> NoName,
     checksum |-> Null]

NoResult == [success |-> FALSE, error |-> "pending", backupName |-> NoName]
Failure(msg) == [success |-> FALSE, error |-> msg, backupName |-> NoName]
Success(name) == [success |-> TRUE, error |-> "", backupName |-> name]

IntegrityError == "Backup file integrity check failed"

IdleCall ==
    [op |-> "none", pc |-> "idle", remotePath |-> "", backupName |-> NoName,
     arg |-> "", info |-> NoRecord, content |-> NoFile, pulled |-> <<>>,
     tempName |-> NoName, modifiedContent |-> <<>>, pushOk |-> FALSE,
     listing |-> {}, result |-> NoResult]

\* the call has returned: its locals are gone, its result is kept
Returned(call, res) ==
    [IdleCall EXCEPT !.op = call.op, !.pc = "done",
                     !.backupName = call.backupName, !.result = res]

StoreIdle ==
    /\ localFs = [n \in LocalNames |-> NoFile]
    /\ checksums = [n \in BackupNames |-> NoRecord]
    /\ now = 0
    /\ calls = [c \in Slots |-> IdleCall]
    /\ ncalls = 0
    /\ touched = {}
    /\ snapshot = [n \in BackupNames |-> [taken |-> FALSE, path |-> "", content |-> <<>>]]

\* adb pull / adb push succeed when the device answers and the source exists
PullOk(remotePath) == shellUp /\ device[remotePath].exists
PushOk(localPath) == shellUp /\ localFs[localPath].exists

CanCall(c) == calls[c].pc \in {"idle", "done"} /\ ncalls < MaxCalls

\* modifyPropertiesFile(content, key, value)
modifyPropertiesFile(content, key, value) ==
    LET keyFound == \E i \in 1..Len(content) : content[i].key = key
        modifiedLines == [i \in 1..Len(content) |->
                            IF content[i].key = key THEN PropLine(key, value)
                            ELSE content[i]]
    IN  IF keyFound THEN modifiedLines
        ELSE Append(modifiedLines, PropLine(key, value))

\* JSON.parse(content) succeeds: no content of the model (properties lines
\* and raw text lines) is a JSON document
IsJSON(content) == FALSE

\* corruptFile: echo "CORRUPTED_DATA_INJECTION" >> filePath
corruptFile(content) == Append(content, RawLine("CORRUPTED_DATA_INJECTION"))
\* replaceFileContent: echo "TAMPERED" > filePath
replaceFileContent(content) == <<RawLine("TAMPERED")>>
\* modifyFilePermissions: chmod 777 filePath
modifyFilePermissions(content) == content

TamperedContent(tamperType, content) ==
    CASE tamperType = "corrupt" -> corruptFile(content)
      [] tamperType = "replace_content" -> replaceFileContent(content)
      [] OTHER -> modifyFilePermissions(content)

\* the first statements of createBackup, up to `await fs.readFile`: the pull.
\* failMsg is what the caller of createBackup reports when the pull fails.
BeginBackup(c, op, remotePath, fileName, arg, failMsg) ==
    /\ CanCall(c)
    /\ ncalls' = ncalls + 1
    /\ IF PullOk(remotePath)
       THEN /\ localFs' = [localFs EXCEPT ![fileName] = device[remotePath]]
            /\ touched' = touched \ {fileName}
            /\ calls' = [calls EXCEPT ![c] =
                           [IdleCall EXCEPT !.op = op, !.pc = "backup_read",
                                            !.remotePath = remotePath,
                                            !.backupName = fileName,
                                            !.arg = arg,
                                            !.pulled = device[remotePath].content]]
       ELSE /\ calls' = [calls EXCEPT ![c] =
                           Returned([IdleCall EXCEPT !.op = op,
                                                     !.remotePath = remotePath,
                                                     !.backupName = fileName,
                                                     !.arg = arg],
                                    Failure(failMsg))]
            /\ UNCHANGED <<localFs, touched>>
    /\ UNCHANGED <<checksums, now, snapshot, devVars, monVars, scoreVars, detVars>>

\* createBackup(remotePath, backupName)
CallCreateBackup(c, remotePath, backupName) ==
    BeginBackup(c, "createBackup", remotePath, backupName, "", "adb pull failed")

\* modifyConfig(configPath, key, value, configFormat), up to the first I/O
CallModifyConfig(c, configPath, configFormat) ==
    BeginBackup(c, "modifyConfig", configPath, Name("config_backup", now),
                configFormat, "Failed to create backup before modification")

\* tamperWithFile(filePath, tamperType), up to the first I/O
CallTamperWithFile(c, filePath, tamperType) ==
    BeginBackup(c, "tamperWithFile", filePath, Name("tamper_backup", now),
                tamperType, "Failed to create backup before tampering")

\* fs.readFile(localBackupPath) of createBackup reads the file
BackupReadDone(c) ==
    /\ calls[c].pc = "backup_read"
    /\ calls' = [calls EXCEPT ![c] =
                   [@ EXCEPT !.pc = "backup_finish",
                             !.content = localFs[calls[c].backupName]]]
    /\ UNCHANGED <<localFs, checksums, now, ncalls, touched, snapshot,
                   devVars, monVars, scoreVars, detVars>>

\* a plausible slip: createBackup returns without `this.checksums.set`
BackupRecordDropped(remotePath, fileName, content) == NoRecord

\* a plausible slip: the checksum taken before the content was read
BackupRecordUnread(remotePath, fileName, content) ==
    [present |-> TRUE, originalPath |-> remotePath, localPath |-> fileName,
     checksum |-> Sha256(<<>>)]

\* the record createBackup stores under fileName (its `timestamp` field, which
\* no code reads, is left out)
BackupRecord(remotePath, fileName, content) ==
    [present |-> TRUE, originalPath |-> remotePath, localPath |-> fileName,
     checksum |-> Sha256(content)]

\* the rest of createBackup (checksum, this.checksums.set, return) and, in the
\* same chain of microtasks, what its caller does up to its next I/O:
\*   createBackup   - the call returns
\*   modifyConfig   - pulls the config to the temp file, starts reading it
\*   tamperWithFile - runs the tamper command on the device and returns
BackupFinish(c) ==
    /\ calls[c].pc = "backup_finish"
    /\ LET call == calls[c]
           fileName == call.backupName
           tempLocalPath == Name("temp_config", now)
       IN  IF ~call.content.exists
           THEN \* readFile threw: createBackup returned { success: false }
                /\ calls' = [calls EXCEPT ![c] =
                      Returned(call,
                               Failure(CASE call.op = "createBackup" -> "ENOENT"
                                         [] call.op = "modifyConfig" ->
                                              "Failed to create backup before modification"
                                         [] OTHER ->
                                              "Failed to create backup before tampering"))]
                /\ UNCHANGED <<localFs, checksums, snapshot, touched, devVars>>
           ELSE /\ checksums' = [checksums EXCEPT ![fileName] =
                      BackupRecord(call.remotePath, fileName, call.content.content)]
                /\ snapshot' = [snapshot EXCEPT ![fileName] =
                      [taken |-> TRUE, path |-> call.remotePath,
                       content |-> call.pulled]]
                /\ CASE call.op = "createBackup" ->
                          /\ calls' = [calls EXCEPT ![c] =
                                         Returned(call, Success(fileName))]
                          /\ UNCHANGED <<localFs, touched, devVars>>
                     [] call.op = "modifyConfig" ->
                          /\ IF PullOk(call.remotePath)
                             THEN /\ localFs' = [localFs EXCEPT ![tempLocalPath] =
                                                   device[call.remotePath]]
                                  /\ calls' = [calls EXCEPT ![c] =
                                        [@ EXCEPT !.pc = "temp_read",
                                                  !.tempName = tempLocalPath,
                                                  !.content = NoFile]]
                             ELSE /\ calls' = [calls EXCEPT ![c] =
                                        Returned(call, Failure("Failed to pull config file"))]
                                  /\ UNCHANGED localFs
                          /\ UNCHANGED <<touched, devVars>>
                     [] OTHER ->
                          IF call.arg \notin {"corrupt", "modify_permissions",
                                              "replace_content"}
                          THEN /\ calls' = [calls EXCEPT ![c] =
                                     Returned(call, Failure("Unknown tamper type"))]
                               /\ UNCHANGED <<localFs, touched, devVars>>
                          ELSE IF shellUp /\ device[call.remotePath].exists
                          THEN /\ Len(TamperedContent(call.arg,
                                        device[call.remotePath].content)) <= MaxLines
                               /\ device' = [device EXCEPT ![call.remotePath] =
                                     File(TamperedContent(call.arg, @.content))]
                               /\ monitoredFiles' = monitoredFiles \cup {call.remotePath}
                               /\ calls' = [calls EXCEPT ![c] =
                                     Returned(call, Success(fileName))]
                               /\ UNCHANGED <<localFs, touched, shellUp>>
                          ELSE /\ calls' = [calls EXCEPT ![c] =
                                     Returned(call, Failure("tamper command failed"))]
                               /\ UNCHANGED <<localFs, touched, devVars>>
    /\ UNCHANGED <<now, ncalls, monVars, scoreVars, detVars>>

\* fs.readFile(tempLocalPath, 'utf8') of modifyConfig reads the file
TempReadDone(c) ==
    /\ calls[c].pc = "temp_read"
    /\ calls' = [calls EXCEPT ![c] =
                   [@ EXCEPT !.pc = "temp_edit",
                             !.content = localFs[calls[c].tempName]]]
    /\ UNCHANGED <<localFs, checksums, now, ncalls, touched, snapshot,
                   devVars, monVars, scoreVars, detVars>>

\* the switch on configFormat; fs.writeFile(tempLocalPath, ...) is started
TempEdit(c) ==
    /\ calls[c].pc = "temp_edit"
    /\ LET call == calls[c]
           originalContent == call.content.content
       IN  IF ~call.content.exists
           THEN calls' = [calls EXCEPT ![c] = Returned(call, Failure("ENOENT"))]
           ELSE IF call.arg = "properties"
           THEN /\ Len(modifyPropertiesFile(originalContent, ConfigKey,
                                            ConfigValue)) <= MaxLines
                /\ calls' = [calls EXCEPT ![c] =
                      [@ EXCEPT !.pc = "temp_write",
                                !.modifiedContent =
                                    modifyPropertiesFile(originalContent,
                                                         ConfigKey, ConfigValue)]]
           ELSE IF call.arg = "json"
           THEN IF IsJSON(originalContent)
                THEN calls' = [calls EXCEPT ![c] =
                        [@ EXCEPT !.pc = "temp_write",
                                  !.modifiedContent = originalContent]]
                ELSE calls' = [calls EXCEPT ![c] =
                        Returned(call, Failure("Invalid JSON content"))]
           ELSE calls' = [calls EXCEPT ![c] =
                   Returned(call, Failure("Unsupported config format"))]
    /\ UNCHANGED <<localFs, checksums, now, ncalls, touched, snapshot,
                   devVars, monVars, scoreVars, detVars>>

\* fs.writeFile writes the temp file
TempWriteDone(c) ==
    /\ calls[c].pc = "temp_write"
    /\ localFs' = [localFs EXCEPT ![calls[c].tempName] =
                     File(calls[c].modifiedContent)]
    /\ calls' = [calls EXCEPT ![c] = [@ EXCEPT !.pc = "temp_push"]]
    /\ UNCHANGED <<checksums, now, ncalls, touched, snapshot,
                   devVars, monVars, scoreVars, detVars>>

\* pushFile(tempLocalPath, configPath); fs.remove(tempLocalPath) is started
ConfigPush(c) ==
    /\ calls[c].pc = "temp_push"
    /\ LET call == calls[c]
       IN  /\ device' = IF PushOk(call.tempName)
                        THEN [device EXCEPT ![call.remotePath] = localFs[call.tempName]]
                        ELSE device
           /\ calls' = [calls EXCEPT ![c] =
                          [@ EXCEPT !.pc = "temp_remove",
                                    !.pushOk = PushOk(call.tempName)]]
    /\ UNCHANGED <<localFs, checksums, now, ncalls, touched, snapshot,
                   shellUp, monitoredFiles, monVars, scoreVars, detVars>>

\* a plausible slip: the clean-up removes the backup instead of the temp file
RemovedBackup(call) == call.backupName

\* await fs.remove(tempLocalPath)
RemovedFile(call) == call.tempName

\* fs.remove removes the temp file
TempRemoveDone(c) ==
    /\ calls[c].pc = "temp_remove"
    /\ localFs' = [localFs EXCEPT ![RemovedFile(calls[c])] = NoFile]
    /\ calls' = [calls EXCEPT ![c] = [@ EXCEPT !.pc = "config_finish"]]
    /\ UNCHANGED <<checksums, now, ncalls, touched, snapshot,
                   devVars, monVars, scoreVars, detVars>>

\* the end of modifyConfig
ConfigFinish(c) ==
    /\ calls[c].pc = "config_finish"
    /\ LET call == calls[c]
       IN  IF call.pushOk
           THEN /\ monitoredFiles' = monitoredFiles \cup {call.remotePath}
                /\ calls' = [calls EXCEPT ![c] =
                               Returned(call, Success(call.backupName))]
           ELSE /\ calls' = [calls EXCEPT ![c] =
                               Returned(call, Failure("adb push failed"))]
                /\ UNCHANGED monitoredFiles
    /\ UNCHANGED <<localFs, checksums, now, ncalls, touched, snapshot,
                   device, shellUp, monVars, scoreVars, detVars>>

\* a plausible slip: the comparison of the checksums left out
IntegrityUnchecked(currentChecksum, recorded) == TRUE

\* `currentChecksum !== backupInfo.checksum` does not throw
IntegrityVerified(currentChecksum, recorded) == currentChecksum = recorded

\* a plausible slip: a fixed push target instead of the recorded path
RestoreTargetDefault(backupInfo) == "p2"

\* the remote path restoreFromBackup pushes to
RestoreTarget(backupInfo) == backupInfo.originalPath

\* restoreFromBackup(backupName), up to `await fs.readFile`
CallRestoreFromBackup(c, backupName) ==
    /\ CanCall(c)
    /\ ncalls' = ncalls + 1
    /\ LET backupInfo == checksums[backupName]
           entered == [IdleCall EXCEPT !.op = "restoreFromBackup",
                                       !.backupName = backupName]
       IN  calls' = [calls EXCEPT ![c] =
                       IF ~backupInfo.present
                       THEN Returned(entered, Failure("Backup not found"))
                       ELSE [entered EXCEPT !.pc = "restore_read",
                                            !.info = backupInfo]]
    /\ UNCHANGED <<localFs, checksums, now, touched, snapshot,
                   devVars, monVars, scoreVars, detVars>>

\* fs.readFile(backupInfo.localPath) of restoreFromBackup reads the file
RestoreReadDone(c) ==
    /\ calls[c].pc = "restore_read"
    /\ calls' = [calls EXCEPT ![c] =
                   [@ EXCEPT !.pc = "restore_finish",
                             !.content = localFs[calls[c].info.localPath]]]
    /\ UNCHANGED <<localFs, checksums, now, ncalls, touched, snapshot,
                   devVars, monVars, scoreVars, detVars>>

\* the integrity check, the push and the return of restoreFromBackup
RestoreFinish(c) ==
    /\ calls[c].pc = "restore_finish"
    /\ LET call == calls[c]
           backupInfo == call.info
           currentChecksum == Sha256(call.content.content)
       IN  IF ~call.content.exists
           THEN /\ calls' = [calls EXCEPT ![c] = Returned(call, Failure("ENOENT"))]
                /\ UNCHANGED device
           ELSE IF ~IntegrityVerified(currentChecksum, backupInfo.checksum)
           THEN /\ calls' = [calls EXCEPT ![c] =
                               Returned(call, Failure(IntegrityError))]
                /\ UNCHANGED device
           ELSE IF PushOk(backupInfo.localPath)
           THEN /\ device' = [device EXCEPT ![RestoreTarget(backupInfo)] =
                                localFs[backupInfo.localPath]]
                /\ calls' = [calls EXCEPT ![c] =
                               Returned(call, Success(call.backupName))]
           ELSE /\ calls' = [calls EXCEPT ![c] =
                               Returned(call, Failure("adb push failed"))]
                /\ UNCHANGED device
    /\ UNCHANGED <<localFs, checksums, now, ncalls, touched, snapshot,
                   shellUp, monitoredFiles, monVars, scoreVars, detVars>>

\* cleanup(), up to `await fs.readdir`: the three `rm -f` of the test file
\* patterns under /data/local/tmp, none of which names a target path, run
\* whether the shell answers or not
CallCleanup(c) ==
    /\ CanCall(c)
    /\ ncalls' = ncalls + 1
    /\ calls' = [calls EXCEPT ![c] =
                   [IdleCall EXCEPT !.op = "cleanup", !.pc = "cleanup_readdir"]]
    /\ UNCHANGED <<localFs, checksums, now, touched, snapshot,
                   devVars, monVars, scoreVars, detVars>>

\* fs.readdir(this.backupDir) lists the backup files
CleanupReaddir(c) ==
    /\ calls[c].pc = "cleanup_readdir"
    /\ calls' = [calls EXCEPT ![c] =
                   [@ EXCEPT !.pc = "cleanup_remove",
                             !.listing = {n \in BackupNames : localFs[n].exists}]]
    /\ UNCHANGED <<localFs, checksums, now, ncalls, touched, snapshot,
                   devVars, monVars, scoreVars, detVars>>

\* fs.remove of one listed file
CleanupRemove(c) ==
    /\ calls[c].pc = "cleanup_remove"
    /\ \E n \in calls[c].listing :
          /\ localFs' = [localFs EXCEPT ![n] = NoFile]
          /\ calls' = [calls EXCEPT ![c] = [@ EXCEPT !.listing = @ \ {n}]]
    /\ UNCHANGED <<checksums, now, ncalls, touched, snapshot,
                   devVars, monVars, scoreVars, detVars>>

\* a plausible slip: the registry left as it is
RegistryKept(registry) == registry

\* this.checksums.clear()
RegistryCleared(registry) == [n \in DOMAIN registry |-> NoRecord]

\* after the last fs.remove: the registry and the monitored set are cleared
CleanupFinish(c) ==
    /\ calls[c].pc = "cleanup_remove"
    /\ calls[c].listing = {}
    /\ checksums' = RegistryCleared(checksums)
    /\ monitoredFiles' = {}
    /\ calls' = [calls EXCEPT ![c] = Returned(calls[c], Success(NoName))]
    /\ UNCHANGED <<localFs, now, ncalls, touched, snapshot,
                   device, shellUp, monVars, scoreVars, detVars>>

\* another process overwrites a local backup file
EnvLocalWrite(n) ==
    /\ localFs[n].exists
    /\ localFs[n] # File(CorruptedBackup)
    /\ localFs' = [localFs EXCEPT ![n] = File(CorruptedBackup)]
    /\ touched' = touched \cup {n}
    /\ UNCHANGED <<checksums, now, calls, ncalls, snapshot,
                   devVars, monVars, scoreVars, detVars>>

\* someone removes a local backup file
EnvLocalRemove(n) ==
    /\ localFs[n].exists
    /\ localFs' = [localFs EXCEPT ![n] = NoFile]
    /\ touched' = touched \cup {n}
    /\ UNCHANGED <<checksums, now, calls, ncalls, snapshot,
                   devVars, monVars, scoreVars, detVars>>

\* the millisecond clock advances
ClockTick ==
    /\ now < MaxTime
    /\ now' = now + 1
    /\ UNCHANGED <<localFs, checksums, calls, ncalls, touched, snapshot,
                   devVars, monVars, scoreVars, detVars>>

StoreDeviceWrite(p, c) ==
    /\ EnvDeviceWrite(p, c)
    /\ UNCHANGED <<monitoredFiles, monVars, scoreVars, detVars, storeVars>>

StoreShellToggle ==
    /\ EnvShellToggle
    /\ UNCHANGED <<monitoredFiles, monVars, scoreVars, detVars, storeVars>>


(***************************************************************************)
(* Inputs of calculateOverallAssessment: one record per category.          *)
(* kind "absent" : the property is undefined on the validation object      *)
(* kind "error"  : the validate* method returned { error }                 *)
(* kind "skipped": validateApplicationSecurity returned { skipped: true }  *)
(* kind "ok"     : a result object whose details follow                    *)
(***************************************************************************)
DeviceSecurityInputs ==
    [kind : {"ok"}, isEmulator : BOOLEAN, isRooted : BOOLEAN,
     debuggingEnabled : BOOLEAN, featuresScore : 0..NumSecurityFeatures]
    \cup [kind : {"absent", "error"}, isEmulator : {FALSE}, isRooted : {FALSE},
          debuggingEnabled : {FALSE}, featuresScore : {0}]

ApplicationSecurityInputs ==
    [kind : {"ok"}, isDebuggable : BOOLEAN, allowsBackup : BOOLEAN,
     isTestOnly : BOOLEAN]
    \cup [kind : {"absent", "error", "skipped"}, isDebuggable : {FALSE},
          allowsBackup : {FALSE}, isTestOnly : {FALSE}]

EnvironmentSecurityInputs ==
    {[kind |-> "ok", high |-> h, medium |-> m] :
        <<h, m>> \in {p \in (0..MaxEnvIssues) \X (0..MaxEnvIssues) :
                        p[1] + p[2] <= MaxEnvIssues}}
    \cup [kind : {"absent", "error"}, high : {0}, medium : {0}]

FileIntegrityInputs ==
    {[kind |-> "ok", hasSummary |-> TRUE, total |-> t, passed |-> p] :
        <<t, p>> \in {q \in (0..MaxFiles) \X (0..MaxFiles) : q[2] <= q[1]}}
    \cup [kind : {"ok", "absent", "error"}, hasSummary : {FALSE},
          total : {0}, passed : {0}]

NetworkSecurityInputs == [kind : {"ok", "absent", "error"}]

Validations ==
    [deviceSecurity : DeviceSecurityInputs,
     applicationSecurity : ApplicationSecurityInputs,
     environmentSecurity : EnvironmentSecurityInputs,
     fileIntegrity : FileIntegrityInputs,
     networkSecurity : NetworkSecurityInputs]

\* a plausible slip: the `!x.error` test left out
PresentOnly(x) == x.kind # "absent"

\* `x && !x.error`
PresentNoError(x) == x.kind # "absent" /\ x.kind # "error"
\* `x && !x.error && !x.skipped`
PresentNoErrorNotSkipped(x) == PresentNoError(x) /\ x.kind # "skipped"

(***************************************************************************)
(* Category scores                                                         *)
(***************************************************************************)
calculateDeviceSecurityScore(d) ==
    LET s0 == 100
        s1 == IF d.isEmulator THEN s0 - 30 ELSE s0
        s2 == IF d.isRooted THEN s1 - 40 ELSE s1
        s3 == IF d.debuggingEnabled THEN s2 - 20 ELSE s2
        \* (score || 0) / 10 * 10
        securityFeaturesScore == d.featuresScore
        s4 == Min(s3, s3 + securityFeaturesScore - 50)
    IN  Max(0, s4)

calculateAppSecurityScore(a) ==
    LET s0 == 100
        s1 == IF a.isDebuggable THEN s0 - 30 ELSE s0
        s2 == IF a.allowsBackup THEN s1 - 15 ELSE s1
        s3 == IF a.isTestOnly THEN s2 - 25 ELSE s2
    IN  Max(0, s3)

calculateEnvironmentSecurityScore(e) ==
    Max(0, 100 - 20 * e.high - 10 * e.medium)

calculateFileIntegrityScore(f) ==
    IF ~f.hasSummary THEN 50
    ELSE IF f.total > 0 THEN MathRound(f.passed * 100, f.total) ELSE 100

calculateNetworkSecurityScore(n) == 80

\* getSecurityLevel(n/d)
getSecurityLevel(n, d) ==
    IF n >= 90 * d THEN "excellent"
    ELSE IF n >= 80 * d THEN "good"
    ELSE IF n >= 70 * d THEN "acceptable"
    ELSE IF n >= 60 * d THEN "poor"
    ELSE "critical"

\* getRiskLevel(n/d)
getRiskLevel(n, d) ==
    IF n >= 80 * d THEN "critical"
    ELSE IF n >= 60 * d THEN "high"
    ELSE IF n >= 40 * d THEN "medium"
    ELSE IF n >= 20 * d THEN "low"
    ELSE "minimal"

(***************************************************************************)
(* calculateOverallAssessment                                              *)
(***************************************************************************)
\* the `factors` array, in the order the five blocks push to it
AssessmentFactors(v) ==
    (IF PresentNoError(v.deviceSecurity)
     THEN <<[category |-> "device",
             score |-> calculateDeviceSecurityScore(v.deviceSecurity),
             weight |-> WeightDevice]>>
     ELSE <<>>)
    \o (IF PresentNoErrorNotSkipped(v.applicationSecurity)
        THEN <<[category |-> "application",
                score |-> calculateAppSecurityScore(v.applicationSecurity),
                weight |-> WeightApplication]>>
        ELSE <<>>)
    \o (IF PresentNoError(v.environmentSecurity)
        THEN <<[category |-> "environment",
                score |-> calculateEnvironmentSecurityScore(v.environmentSecurity),
                weight |-> WeightEnvironment]>>
        ELSE <<>>)
    \o (IF PresentNoError(v.fileIntegrity)
        THEN <<[category |-> "fileIntegrity",
                score |-> calculateFileIntegrityScore(v.fileIntegrity),
                weight |-> WeightFileIntegrity]>>
        ELSE <<>>)
    \o (IF PresentNoError(v.networkSecurity)
        THEN <<[category |-> "network",
                score |-> calculateNetworkSecurityScore(v.networkSecurity),
                weight |-> WeightNetwork]>>
        ELSE <<>>)

\* a plausible slip: no fallback when no category was evaluated; 0 / 0 is NaN
\* and the report carries no score (the marker NoAssessment uses)
NormalizedScoreUnguarded(totalScore, maxScore) ==
    IF maxScore > 0 THEN <<totalScore * 100, maxScore>> ELSE <<-1, 1>>

\* normalizedScore = maxScore > 0 ? (totalScore / maxScore) * 100 : 50,
\* as the pair <<numerator, denominator>>.  totalScore and maxScore are both
\* in hundredths here, so their quotient is the code's quotient.
NormalizedScore(totalScore, maxScore) ==
    IF maxScore > 0 THEN <<totalScore * 100, maxScore>> ELSE <<50, 1>>

\* a plausible slip: the risk banded over the score itself
ComplementForgotten(n, d) == n

\* 100 - normalizedScore, as the numerator over the denominator d
ComplementOfScore(n, d) == 100 * d - n

calculateOverallAssessment(v) ==
    LET factors == AssessmentFactors(v)
        totalScore == SumSeq(factors, TRUE)
        maxScore == SumSeq(factors, FALSE)
        norm == NormalizedScore(totalScore, maxScore)
    IN  [overallScore |-> MathRound(norm[1], norm[2]),
         securityLevel |-> getSecurityLevel(norm[1], norm[2]),
         riskLevel |-> getRiskLevel(ComplementOfScore(norm[1], norm[2]), norm[2]),
         factors |-> factors,
         passed |-> norm[1] >= 70 * norm[2]]

NoAssessment ==
    [overallScore |-> -1, securityLevel |-> "none", riskLevel |-> "none",
     factors |-> <<>>, passed |-> FALSE]

(***************************************************************************)
(* DeviceDetector.calculateRiskScore                                       *)
(* installedApps of kind "list" is the bare [] getSecurityRelevantApps     *)
(* returns when `pm list packages` fails: truthy, no error, no riskApps.   *)
(***************************************************************************)
DetectionInputs == [kind : {"ok"}, flag : BOOLEAN]
                   \cup [kind : {"absent", "error"}, flag : {FALSE}]

Analyses ==
    [emulatorDetection : DetectionInputs,
     rootDetection : DetectionInputs,
     debugDetection : DetectionInputs,
     securityFeatures :
        [kind : {"ok"}, securityScore : 0..NumSecurityFeatures]
        \cup [kind : {"absent", "error"}, securityScore : {0}],
     installedApps :
        [kind : {"ok"}, riskApps : 0..MaxRiskItems]
        \cup [kind : {"absent", "error", "list"}, riskApps : {0}],
     networkAnalysis :
        [kind : {"ok"}, riskIndicators : 0..MaxRiskItems]
        \cup [kind : {"absent", "error"}, riskIndicators : {0}]]

\* <<riskScore, maxScore>> contributed by each block
RiskEmulator(a) ==
    IF PresentNoError(a.emulatorDetection)
    THEN <<IF a.emulatorDetection.flag THEN 20 ELSE 0, 20>> ELSE <<0, 0>>
RiskRoot(a) ==
    IF PresentNoError(a.rootDetection)
    THEN <<IF a.rootDetection.flag THEN 30 ELSE 0, 30>> ELSE <<0, 0>>
RiskDebug(a) ==
    IF PresentNoError(a.debugDetection)
    THEN <<IF a.debugDetection.flag THEN 15 ELSE 0, 15>> ELSE <<0, 0>>
RiskFeatures(a) ==
    IF PresentNoError(a.securityFeatures)
    THEN <<Max(0, 10 - a.securityFeatures.securityScore), 10>> ELSE <<0, 0>>
RiskApps(a) ==
    IF PresentNoError(a.installedApps)
    THEN <<IF a.installedApps.riskApps > 0 THEN 10 ELSE 0, 10>> ELSE <<0, 0>>
RiskNetwork(a) ==
    IF PresentNoError(a.networkAnalysis)
    THEN <<IF a.networkAnalysis.riskIndicators > 0
           THEN Min(15, a.networkAnalysis.riskIndicators * 5) ELSE 0, 15>>
    ELSE <<0, 0>>

calculateRiskScore(a) ==
    LET parts == <<RiskEmulator(a), RiskRoot(a), RiskDebug(a),
                   RiskFeatures(a), RiskApps(a), RiskNetwork(a)>>
        riskScore == parts[1][1] + parts[2][1] + parts[3][1]
                     + parts[4][1] + parts[5][1] + parts[6][1]
        maxScore == parts[1][2] + parts[2][2] + parts[3][2]
                    + parts[4][2] + parts[5][2] + parts[6][2]
        \* normalizedScore = maxScore > 0 ? (riskScore / maxScore) * 100 : 0
        norm == IF maxScore > 0 THEN <<riskScore * 100, maxScore>> ELSE <<0, 1>>
    IN  [score |-> MathRound(norm[1], norm[2]),
         level |-> getRiskLevel(norm[1], norm[2]),
         maxScore |-> maxScore]

NoRisk == [score |-> -1, level |-> "none", maxScore |-> 0]

AllAbsentValidation ==
    [deviceSecurity |-> [kind |-> "absent", isEmulator |-> FALSE,
                         isRooted |-> FALSE, debuggingEnabled |-> FALSE,
                         featuresScore |-> 0],
     applicationSecurity |-> [kind |-> "absent", isDebuggable |-> FALSE,
                              allowsBackup |-> FALSE, isTestOnly |-> FALSE],
     environmentSecurity |-> [kind |-> "absent", high |-> 0, medium |-> 0],
     fileIntegrity |-> [kind |-> "absent", hasSummary |-> FALSE,
                        total |-> 0, passed |-> 0],
     networkSecurity |-> [kind |-> "absent"]]

AllAbsentAnalysis ==
    [emulatorDetection |-> [kind |-> "absent", flag |-> FALSE],
     rootDetection |-> [kind |-> "absent", flag |-> FALSE],
     debugDetection |-> [kind |-> "absent", flag |-> FALSE],
     securityFeatures |-> [kind |-> "absent", securityScore |-> 0],
     installedApps |-> [kind |-> "absent", riskApps |-> 0],
     networkAnalysis |-> [kind |-> "absent", riskIndicators |-> 0]]

(***************************************************************************)
(* Detection: DeviceDetector.detectEmulator / detectRoot / detectDebugging *)
(* and SecurityChecker.detectEmulator / detectRoot over ADBHelper.         *)
(***************************************************************************)

\* executeCommand returns { success, output }; on failure the output a probe
\* may look at is empty
ShellResult(success, output) == [success |-> success, output |-> output]

\* what getprop prints, by the tests the detectors make on it:
\*   emulatorBuild  ro.build.fingerprint includes 'generic'
\*   adbInsecure    ro.adb.secure === '0'
\*   debuggable     ro.debuggable === '1'
NoProps == [emulatorBuild |-> FALSE, adbInsecure |-> FALSE, debuggable |-> FALSE]
PropSets == [emulatorBuild : BOOLEAN, adbInsecure : BOOLEAN, debuggable : BOOLEAN]

HardwareFeatures == {"camera", "gps", "nfc", "telephony", "bluetooth", "wifi"}
FeatureLists == {{"bluetooth", "wifi"}, HardwareFeatures}

EmulatorFiles ==
    {"/system/lib/libc_malloc_debug_qemu.so", "/sys/qemu_trace",
     "/system/bin/qemu-props", "/dev/socket/qemud", "/dev/qemu_pipe",
     "/proc/tty/drivers"}

RootProbes ==
    {"su_binary_found", "superuser_app_found", "busybox_found",
     "system_writable", "root_app_com.noshufou.android.su",
     "root_app_com.thirdparty.superuser", "root_app_eu.chainfire.supersu"}

\* the probes whose answer varies in the model; the others answer a clean
\* device's "missing"
VariedFiles == {"/dev/qemu_pipe"}
VariedRootProbes == {"su_binary_found", "busybox_found", "system_writable"}

Failed == ShellResult(FALSE, FALSE)
Missing == ShellResult(TRUE, FALSE)
Found == ShellResult(TRUE, TRUE)
MarkerResults == {Failed, Missing, Found}

\* a clean physical device whose shell answers every command
CleanEvidence ==
    [getprop |-> ShellResult(TRUE, NoProps),
     features |-> ShellResult(TRUE, HardwareFeatures),
     files |-> [f \in EmulatorFiles |-> Missing],
     root |-> [p \in RootProbes |-> Missing]]

GetpropResults == {ShellResult(TRUE, p) : p \in PropSets} \cup {ShellResult(FALSE, NoProps)}
FeatureResults == {ShellResult(TRUE, l) : l \in FeatureLists} \cup {ShellResult(FALSE, {})}

\* the evidences of the model: a device that departs from the clean one under
\* the probes of one category at a time
EmulatorEvidence(e) ==
    \/ e.getprop.output.emulatorBuild
    \/ e.features # CleanEvidence.features
    \/ e.files # CleanEvidence.files

DebugEvidence(e) == e.getprop.output.adbInsecure \/ e.getprop.output.debuggable

RootEvidence(e) == e.root # CleanEvidence.root

IsEvidence(e) ==
    /\ ~(EmulatorEvidence(e) /\ DebugEvidence(e))
    /\ ~(EmulatorEvidence(e) /\ RootEvidence(e))
    /\ ~(DebugEvidence(e) /\ RootEvidence(e))

\* ---- ADBHelper ----

\* getSystemProperties: {} when getprop fails
getSystemProperties(result) == IF result.success THEN result.output ELSE NoProps

\* isEmulator: some of the eight property tests is true
isEmulator(properties) == properties.emulatorBuild

\* isRooted: the indicators pushed by the probes that succeeded and matched
rootIndicators(results) ==
    {p \in RootProbes : results[p].success /\ results[p].output}

isRooted(results) ==
    LET n == Cardinality(rootIndicators(results))
    IN  [isRooted |-> n > 0,
         indicators |-> rootIndicators(results),
         confidence |-> IF n > 2 THEN "high" ELSE IF n > 0 THEN "medium" ELSE "low"]

\* ---- DeviceDetector probes ----

checkBuildFingerprint(properties) == properties.emulatorBuild

checkHardwareFeatures(result) ==
    LET features == IF result.success THEN result.output ELSE {}
        missingFeatures == Cardinality(HardwareFeatures \ features)
    IN  missingFeatures > 3

checkEmulatorFiles(results) ==
    LET foundFiles == Cardinality({f \in EmulatorFiles :
                                      results[f].success /\ results[f].output})
    IN  foundFiles > 0

\* the probes left as stubs return { detected: false } / false
Stub == FALSE

emulatorDetectionResults(e) ==
    [buildFingerprint |-> checkBuildFingerprint(getSystemProperties(e.getprop)),
     hardwareFeatures |-> checkHardwareFeatures(e.features),
     systemFiles |-> checkEmulatorFiles(e.files),
     networkInterface |-> Stub,
     sensorData |-> Stub,
     performanceMetrics |-> Stub,
     processAnalysis |-> Stub]

rootDetectionIndicators(e) ==
    [suBinary |-> Stub, rootApps |-> Stub, systemWritable |-> Stub,
     dangerousProps |-> Stub, rootCloaking |-> Stub, busyBox |-> Stub,
     xposed |-> Stub, magisk |-> Stub]

debuggingDetails(e) ==
    [adbEnabled |-> getSystemProperties(e.getprop).adbInsecure,
     debuggable |-> getSystemProperties(e.getprop).debuggable,
     developerOptions |-> Stub,
     usbDebugging |-> Stub,
     mockLocations |-> Stub,
     debuggerAttached |-> Stub]

\* Object.values(results).filter(r => r.detected): the indicators that fired
FiredIn(results) == {k \in DOMAIN results : results[k]}

\* a confidence is the exact fraction <<numerator, denominator>>
NoConfidence == <<-1, 1>>
Fraction(n, d) == <<n, d>>
ExceedsThreshold(confidence, num, den) == confidence[1] * den > num * confidence[2]

\* the result object of a detection, with what SecurityChecker reads from it
DetectionResult(fired, total, confidence, detected, riskLevel) ==
    [fired |-> fired, total |-> total, confidence |-> confidence,
     detected |-> detected, riskLevel |-> riskLevel]

\* DeviceDetector.detectEmulator past the cache lookup
collectEmulator(e) ==
    LET detectionResults == emulatorDetectionResults(e)
        indicators == Cardinality(FiredIn(detectionResults))
        total == Cardinality(DOMAIN detectionResults)
        confidence == Fraction(indicators, total)
    IN  DetectionResult(FiredIn(detectionResults), total, confidence,
                        ExceedsThreshold(confidence, 5, 10), "none")

\* DeviceDetector.detectRoot past the cache lookup
collectRoot(e) ==
    LET rootIndicatorsFound == rootDetectionIndicators(e)
        indicators == Cardinality(FiredIn(rootIndicatorsFound))
        total == Cardinality(DOMAIN rootIndicatorsFound)
        confidence == Fraction(indicators, total)
    IN  DetectionResult(FiredIn(rootIndicatorsFound), total, confidence,
                        ExceedsThreshold(confidence, 3, 10), "none")

calculateDebuggingRisk(debugging) ==
    LET risks == Cardinality(FiredIn(debugging))
    IN  IF risks > 2 THEN "high" ELSE IF risks > 0 THEN "medium" ELSE "low"

\* DeviceDetector.detectDebugging: no confidence, the verdict is `some`
detectDebugging(e) ==
    LET debugging == debuggingDetails(e)
    IN  DetectionResult(FiredIn(debugging), Cardinality(DOMAIN debugging),
                        NoConfidence, FiredIn(debugging) # {},
                        calculateDebuggingRisk(debugging))

\* SecurityChecker.calculateEmulatorRisk / calculateRootRisk / calculateDebugRisk
calculateEmulatorRisk(emulatorDetection) ==
    IF emulatorDetection.detected THEN "high" ELSE "low"

calculateRootRisk(rootDetection) ==
    IF rootDetection.detected THEN "critical" ELSE "low"

calculateDebugRisk(debugDetection) ==
    IF debugDetection.detected THEN "high" ELSE "low"

\* SecurityChecker.detectEmulator: ADBHelper.isEmulator and a two-valued confidence
checkerDetectEmulator(e) ==
    LET emulatorCheck == isEmulator(getSystemProperties(e.getprop))
    IN  DetectionResult(IF emulatorCheck THEN {"properties"} ELSE {}, 1,
                        IF emulatorCheck THEN Fraction(9, 10) ELSE Fraction(1, 10),
                        emulatorCheck,
                        IF emulatorCheck THEN "high" ELSE "low")

\* SecurityChecker.detectRoot: ADBHelper.isRooted and a three-valued confidence
checkerDetectRoot(e) ==
    LET rootCheck == isRooted(e.root)
    IN  DetectionResult(rootCheck.indicators, Cardinality(RootProbes),
                        IF rootCheck.confidence = "high" THEN Fraction(9, 10)
                        ELSE IF rootCheck.confidence = "medium" THEN Fraction(6, 10)
                        ELSE Fraction(3, 10),
                        rootCheck.isRooted,
                        IF rootCheck.isRooted THEN "critical" ELSE "low")

\* ---- the result cache ----
CacheTimeout == 30000
CacheKeys == {"emulator_detection", "root_detection"}

NoData == DetectionResult({}, 0, NoConfidence, FALSE, "none")
NoEntry == [present |-> FALSE, data |-> NoData, timestamp |-> 0]

\* a plausible slip: one key for every category
CacheKeyShared(detector) == "emulator_detection"

\* const cacheKey = 'emulator_detection' / 'root_detection'
CacheKey(detector) ==
    IF detector = "emulator" THEN "emulator_detection" ELSE "root_detection"

\* a plausible slip: the entry returned whatever its age
getCachedResultStale(cache, key, t) ==
    IF cache[key].present THEN cache[key].data ELSE NoData

\* getCachedResult: the entry's data while Date.now() - timestamp < cacheTimeout
getCachedResult(cache, key, t) ==
    LET cached == cache[key]
    IN  IF cached.present /\ t - cached.timestamp < CacheTimeout
        THEN cached.data ELSE NoData

setCachedResult(cache, key, data, t) ==
    [cache EXCEPT ![key] = [present |-> TRUE, data |-> data, timestamp |-> t]]

\* ---- detection as a state machine ----
NoRun ==
    [detector |-> "none", result |-> NoData, risk |-> "none", cached |-> FALSE]

Run(detector, result, risk, cached) ==
    [detector |-> detector, result |-> result, risk |-> risk, cached |-> cached]

DetectIdle ==
    /\ evidence = CleanEvidence
    /\ detectionCache = [k \in CacheKeys |-> NoEntry]
    /\ lastRun = NoRun
    /\ settled = {}

\* the risk validateDeviceSecurity gives the result of a cached category
riskOf(detector, result) ==
    IF detector = "emulator" THEN calculateEmulatorRisk(result)
    ELSE calculateRootRisk(result)

\* a detection served from the cache or collected and cached
CachedDetection(detector, collected) ==
    LET key == CacheKey(detector)
        cached == getCachedResult(detectionCache, key, now)
    IN  IF cached # NoData
        THEN /\ lastRun' = Run(detector, cached, riskOf(detector, cached), TRUE)
             /\ settled' = settled \cup {"run"}
             /\ UNCHANGED detectionCache
        ELSE /\ lastRun' = Run(detector, collected, riskOf(detector, collected), FALSE)
             /\ detectionCache' = setCachedResult(detectionCache, key, collected, now)
             /\ settled' = settled \cup {"run", key}

\* deviceDetector.detectEmulator(), its risk as validateDeviceSecurity labels it
DetectEmulator ==
    /\ CachedDetection("emulator", collectEmulator(evidence))
    /\ UNCHANGED <<evidence, scoreVars, devVars, monVars, storeVars>>

\* deviceDetector.detectRoot()
DetectRoot ==
    /\ CachedDetection("root", collectRoot(evidence))
    /\ UNCHANGED <<evidence, scoreVars, devVars, monVars, storeVars>>

\* deviceDetector.detectDebugging(): never cached
DetectDebugging ==
    /\ lastRun' = Run("debug", detectDebugging(evidence),
                      calculateDebugRisk(detectDebugging(evidence)), FALSE)
    /\ settled' = settled \cup {"run"}
    /\ UNCHANGED <<evidence, detectionCache, scoreVars,
                   devVars, monVars, storeVars>>

\* securityChecker.detectEmulator()
CheckerDetectEmulator ==
    /\ lastRun' = Run("checker_emulator", checkerDetectEmulator(evidence),
                      checkerDetectEmulator(evidence).riskLevel, FALSE)
    /\ settled' = settled \cup {"run"}
    /\ UNCHANGED <<evidence, detectionCache, scoreVars,
                   devVars, monVars, storeVars>>

\* securityChecker.detectRoot()
CheckerDetectRoot ==
    /\ lastRun' = Run("checker_root", checkerDetectRoot(evidence),
                      checkerDetectRoot(evidence).riskLevel, FALSE)
    /\ settled' = settled \cup {"run"}
    /\ UNCHANGED <<evidence, detectionCache, scoreVars,
                   devVars, monVars, storeVars>>

\* the device changes, or its shell starts or stops answering, under one probe
ProbeAnswers(e) ==
    {[e EXCEPT !.getprop = g] : g \in GetpropResults}
        \cup {[e EXCEPT !.features = f] : f \in FeatureResults}
        \cup {[e EXCEPT !.files[n] = r] : n \in VariedFiles, r \in MarkerResults}
        \cup {[e EXCEPT !.root[p] = r] : p \in VariedRootProbes, r \in MarkerResults}

EvidenceChange ==
    /\ evidence' \in ProbeAnswers(evidence)
    /\ evidence' # evidence
    /\ IsEvidence(evidence')
    /\ settled' = {}
    /\ UNCHANGED <<detectionCache, lastRun, scoreVars, devVars, monVars, storeVars>>

\* one cache lifetime passes; the clock is followed through one lifetime
CacheClockTick ==
    /\ now < CacheTimeout
    /\ now' = now + CacheTimeout
    /\ UNCHANGED <<detVars, scoreVars, devVars, monVars, localFs, checksums,
                   calls, ncalls, touched, snapshot>>

\* half a cache lifetime passes, followed until an entry stored half a
\* lifetime after the start has expired
CacheClockStep ==
    /\ now < CacheTimeout + CacheTimeout \div 2
    /\ now' = now + CacheTimeout \div 2
    /\ UNCHANGED <<detVars, scoreVars, devVars, monVars, localFs, checksums,
                   calls, ncalls, touched, snapshot>>

(***************************************************************************)
(* Scoring as a state machine: an input is drawn, the function is applied. *)
(***************************************************************************)
ScoreIdle ==
    /\ scorePc = "idle"
    /\ validation = AllAbsentValidation
    /\ assessment = NoAssessment
    /\ analysis = AllAbsentAnalysis
    /\ riskAssessment = NoRisk

InitScore ==
    /\ DetectIdle
    /\ DeviceIdle
    /\ MonIdle
    /\ StoreIdle
    /\ assessment = NoAssessment
    /\ riskAssessment = NoRisk
    /\ \/ /\ scorePc = "validated"
          /\ validation \in Validations
          /\ analysis = AllAbsentAnalysis
       \/ /\ scorePc = "analyzed"
          /\ validation = AllAbsentValidation
          /\ analysis \in Analyses

\* validation.overallAssessment = this.calculateOverallAssessment(validation)
CalculateOverallAssessment ==
    /\ scorePc = "validated"
    /\ assessment' = calculateOverallAssessment(validation)
    /\ scorePc' = "assessed"
    /\ UNCHANGED <<validation, analysis, riskAssessment, devVars, monVars, storeVars,
                   detVars>>

\* analysis.riskAssessment = this.calculateRiskScore(analysis)
CalculateRiskScore ==
    /\ scorePc = "analyzed"
    /\ riskAssessment' = calculateRiskScore(analysis)
    /\ scorePc' = "risk_scored"
    /\ UNCHANGED <<validation, analysis, assessment, devVars, monVars, storeVars,
                   detVars>>

NextScore ==
    \/ CalculateOverallAssessment
    \/ CalculateRiskScore

SpecScore == InitScore /\ [][NextScore]_vars

InitMon ==
    /\ DetectIdle
    /\ ScoreIdle
    /\ DeviceIdle
    /\ MonIdle
    /\ StoreIdle

\* one monitor call, the device changing and failing under it
NextMon ==
    \/ \E fp \in FilePathLists, d \in Durations : MonitorCall("m1", fp, d)
    \/ MonitorInitStep("m1")
    \/ MonitorTick("m1")
    \/ MonitorPoll("m1")
    \/ MonitorExpire("m1")
    \/ MonDeviceWrite
    \/ MonShellToggle

SpecMon == InitMon /\ [][NextMon]_vars

\* two monitor calls whose path sets overlap, on a reachable device; the
\* second call monitors for one polling interval
NextMonPair ==
    \/ \E fp \in FilePathLists, d \in Durations : MonitorCall("m1", fp, d)
    \/ \E fp \in FilePathLists : MonitorCall("m2", fp, PollIntervalMs)
    \/ \E m \in MonIds : MonitorInitStep(m)
    \/ \E m \in MonIds : MonitorTick(m)
    \/ \E m \in MonIds : MonitorPoll(m)
    \/ \E m \in MonIds : MonitorExpire(m)
    \/ MonDeviceWrite

SpecMonPair == InitMon /\ [][NextMonPair]_vars

\* one monitor call that its caller may want to cancel
NextMonCancel ==
    \/ NextMon
    \/ MonitorCancel("m1")

SpecMonCancel == InitMon /\ [][NextMonCancel]_vars

InitStore ==
    /\ DetectIdle
    /\ ScoreIdle
    /\ DeviceIdle
    /\ MonIdle
    /\ StoreIdle

\* calls made one after the other on one target path: each call is awaited
\* before the next one is made, as the test suites do
NextStore ==
    \/ \E n \in UserNames : CallCreateBackup("c1", "p1", n)
    \/ \E n \in BackupNames : CallRestoreFromBackup("c1", n)
    \/ \E f \in ConfigFormats : CallModifyConfig("c1", "p1", f)
    \/ \E t \in TamperTypes : CallTamperWithFile("c1", "p1", t)
    \/ BackupReadDone("c1")
    \/ BackupFinish("c1")
    \/ TempReadDone("c1")
    \/ TempEdit("c1")
    \/ TempWriteDone("c1")
    \/ ConfigPush("c1")
    \/ TempRemoveDone("c1")
    \/ ConfigFinish("c1")
    \/ RestoreReadDone("c1")
    \/ RestoreFinish("c1")
    \/ \E n \in UserNames : EnvLocalWrite(n)
    \/ ClockTick
    \/ StoreShellToggle

SpecStore == InitStore /\ [][NextStore]_vars

\* createBackup and restoreFromBackup called without awaiting one another
NextStorePair ==
    \/ \E c \in Slots, p \in Paths, n \in UserNames : CallCreateBackup(c, p, n)
    \/ \E c \in Slots, n \in UserNames : CallRestoreFromBackup(c, n)
    \/ \E c \in Slots : BackupReadDone(c)
    \/ \E c \in Slots : BackupFinish(c)
    \/ \E c \in Slots : RestoreReadDone(c)
    \/ \E c \in Slots : RestoreFinish(c)
    \/ \E p \in Paths, c \in EnvContents : StoreDeviceWrite(p, c)

SpecStorePair == InitStore /\ [][NextStorePair]_vars

\* createBackup, modifyConfig and restoreFromBackup awaited one after the
\* other, while the shell comes and goes and local backup files disappear
NextStoreFault ==
    \/ \E n \in UserNames : CallCreateBackup("c1", "p1", n)
    \/ \E f \in ConfigFormats : CallModifyConfig("c1", "p1", f)
    \/ \E n \in BackupNames : CallRestoreFromBackup("c1", n)
    \/ BackupReadDone("c1")
    \/ BackupFinish("c1")
    \/ TempReadDone("c1")
    \/ TempEdit("c1")
    \/ TempWriteDone("c1")
    \/ ConfigPush("c1")
    \/ TempRemoveDone("c1")
    \/ ConfigFinish("c1")
    \/ RestoreReadDone("c1")
    \/ RestoreFinish("c1")
    \/ \E n \in UserNames : EnvLocalRemove(n)
    \/ StoreShellToggle

SpecStoreFault == InitStore /\ [][NextStoreFault]_vars

\* backups made, restored and cleaned up, each call awaited before the next
NextStoreCleanup ==
    \/ \E p \in Paths, n \in UserNames : CallCreateBackup("c1", p, n)
    \/ \E f \in ConfigFormats : CallModifyConfig("c1", "p1", f)
    \/ \E n \in BackupNames : CallRestoreFromBackup("c1", n)
    \/ CallCleanup("c1")
    \/ BackupReadDone("c1")
    \/ BackupFinish("c1")
    \/ TempReadDone("c1")
    \/ TempEdit("c1")
    \/ TempWriteDone("c1")
    \/ ConfigPush("c1")
    \/ TempRemoveDone("c1")
    \/ ConfigFinish("c1")
    \/ RestoreReadDone("c1")
    \/ RestoreFinish("c1")
    \/ CleanupReaddir("c1")
    \/ CleanupRemove("c1")
    \/ CleanupFinish("c1")
    \/ StoreShellToggle

SpecStoreCleanup == InitStore /\ [][NextStoreCleanup]_vars

\* a second config file, with another key
OtherConfig == <<PropLine("verbose", "1")>>

\* the path each of two concurrent modifyConfig calls is made on
ConfigTarget(c) == IF c = "c1" THEN "p1" ELSE "p2"

\* two config files of different content on the device
InitConfigPair ==
    /\ DetectIdle
    /\ ScoreIdle
    /\ MonIdle
    /\ StoreIdle
    /\ device = [p \in Paths |-> IF p = "p1" THEN File(OriginalContent)
                                             ELSE File(OtherConfig)]
    /\ shellUp = TRUE
    /\ monitoredFiles = {}

\* modifyConfig called on two paths without awaiting one another
NextConfigPair ==
    \/ \E c \in Slots : CallModifyConfig(c, ConfigTarget(c), "properties")
    \/ \E c \in Slots : BackupReadDone(c)
    \/ \E c \in Slots : BackupFinish(c)
    \/ \E c \in Slots : TempReadDone(c)
    \/ \E c \in Slots : TempEdit(c)
    \/ \E c \in Slots : TempWriteDone(c)
    \/ \E c \in Slots : ConfigPush(c)
    \/ \E c \in Slots : TempRemoveDone(c)
    \/ \E c \in Slots : ConfigFinish(c)
    \/ ClockTick

SpecConfigPair == InitConfigPair /\ [][NextConfigPair]_vars

\* modifyConfig and restoreFromBackup awaited one after the other on a path
\* that another actor writes to
NextConfigRace ==
    \/ CallModifyConfig("c1", "p1", "properties")
    \/ \E n \in BackupNames : CallRestoreFromBackup("c1", n)
    \/ BackupReadDone("c1")
    \/ BackupFinish("c1")
    \/ TempReadDone("c1")
    \/ TempEdit("c1")
    \/ TempWriteDone("c1")
    \/ ConfigPush("c1")
    \/ TempRemoveDone("c1")
    \/ ConfigFinish("c1")
    \/ RestoreReadDone("c1")
    \/ RestoreFinish("c1")
    \/ \E c \in EnvContents : StoreDeviceWrite("p1", c)
    \/ ClockTick

SpecConfigRace == InitStore /\ [][NextConfigRace]_vars

InitDetect ==
    /\ ScoreIdle
    /\ DeviceIdle
    /\ MonIdle
    /\ StoreIdle
    /\ DetectIdle

\* the detections of both classes, called one after the other on a device
\* whose evidence may change between two calls
NextDetect ==
    \/ DetectEmulator
    \/ DetectRoot
    \/ DetectDebugging
    \/ CheckerDetectEmulator
    \/ CheckerDetectRoot
    \/ EvidenceChange
    \/ CacheClockTick

SpecDetect == InitDetect /\ [][NextDetect]_vars

\* the two cached detections of DeviceDetector on a device whose evidence
\* changes, the clock followed in half lifetimes of an entry
NextCache ==
    \/ DetectEmulator
    \/ DetectRoot
    \/ EvidenceChange
    \/ CacheClockStep

SpecCache == InitDetect /\ [][NextCache]_vars

(***************************************************************************)
(* Claims about monitorFileIntegrity                                       *)
(***************************************************************************)
\* the step is one iteration of the polling callback of call m
IsPollStep(m) == mon[m].tickPos > 0 /\ mon'[m].tickPos # mon[m].tickPos

MonitorActive(m) == mon[m].st \in {"init", "polling"}

\* C3: when a poll observes for path p a checksum c1 that differs from the
\* baseline entry c0, exactly one change {p, c0, c1} is appended and the
\* baseline entry of p becomes c1 (so a later poll that observes c0 again
\* appends a second change {p, c1, c0}).
C3_DedupSinceLastPoll ==
    [][\A m \in MonIds :
          IsPollStep(m) =>
             LET k == mon[m].tickPos
                 entry == initialChecksums[m][k]
                 c1 == calculateRemoteFileChecksum(entry.filePath)
             IN  (c1 # Null /\ c1 # entry.checksum) =>
                    /\ mon'[m].changes =
                          Append(mon[m].changes,
                                 [filePath |-> entry.filePath,
                                  originalChecksum |-> entry.checksum,
                                  currentChecksum |-> c1])
                    /\ initialChecksums'[m][k] =
                          [filePath |-> entry.filePath, checksum |-> c1]]_vars

\* a change c0 -> c1 of p1 followed by the change back c1 -> c0, both recorded
C3_Witness ==
    \E m \in MonIds :
        /\ mon[m].st = "polling"
        /\ mon[m].changes =
              <<[filePath |-> "p1",
                 originalChecksum |-> Sha256(OriginalContent),
                 currentChecksum |-> Sha256(ChangedContent)],
                [filePath |-> "p1",
                 originalChecksum |-> Sha256(ChangedContent),
                 currentChecksum |-> Sha256(OriginalContent)]>>

\* C4: the monitor call resolves only when the monitoring duration has
\* elapsed, so that the changes list of the resolved result holds every
\* change the polling observed in that window.
C4_ResolvesWhenDurationElapsed ==
    \A m \in MonIds : mon[m].resolved => mon[m].st = "stopped"

\* C5: once the monitor call has resolved or its duration has expired, no
\* change is appended to its changes list any more and no polling timer of
\* that call remains scheduled.
C5_NoEmitAfterResolveOrExpiry ==
    [][\A m \in MonIds :
          (mon[m].resolved \/ mon[m].st = "stopped") =>
             /\ mon'[m].changes = mon[m].changes
             /\ ~mon'[m].intervalActive]_vars

CanonicalWeight(c) ==
    CASE c = "device" -> 40
      [] c = "application" -> 25
      [] c = "environment" -> 20
      [] c = "fileIntegrity" -> 10
      [] c = "network" -> 5

RECURSIVE WeightedSum(_)
WeightedSum(fs) ==
    IF fs = <<>> THEN 0
    ELSE Head(fs).score * CanonicalWeight(Head(fs).category)
         + WeightedSum(Tail(fs))

RECURSIVE WeightTotal(_)
WeightTotal(fs) ==
    IF fs = <<>> THEN 0
    ELSE CanonicalWeight(Head(fs).category) + WeightTotal(Tail(fs))

\* C8: for every input of the overall assessment (any subset of the five
\* categories evaluated, each category score in [0,100], also when no
\* category is evaluated) the returned overallScore is in [0,100].
C8_OverallScoreInRange ==
    scorePc = "assessed" => assessment.overallScore \in 0..100

\* C9: overallScore is the weighted mean of the evaluated categories' scores
\* under the canonical weights, renormalized over the evaluated categories
\* only (to the nearest integer, as the report carries Math.round of it).
C9_OverallScoreIsWeightedMean ==
    (scorePc = "assessed" /\ assessment.factors # <<>>) =>
        assessment.overallScore =
            MathRound(WeightedSum(assessment.factors),
                      WeightTotal(assessment.factors))

\* the input with every faulted or skipped category taken away
RemainingValidation(v) ==
    [c \in DOMAIN v |->
        IF v[c].kind \in {"error", "skipped"}
        THEN AllAbsentValidation[c] ELSE v[c]]

RemainingAnalysis(a) ==
    [c \in DOMAIN a |->
        IF a[c].kind = "error" THEN AllAbsentAnalysis[c] ELSE a[c]]

\* the risk points a category of the device analysis can contribute
RiskPoints(c) ==
    CASE c = "emulatorDetection" -> 20
      [] c = "rootDetection" -> 30
      [] c = "debugDetection" -> 15
      [] c = "securityFeatures" -> 10
      [] c = "installedApps" -> 10
      [] c = "networkAnalysis" -> 15

RECURSIVE SumPoints(_)
SumPoints(S) ==
    IF S = {} THEN 0
    ELSE LET c == CHOOSE x \in S : TRUE IN RiskPoints(c) + SumPoints(S \ {c})

\* the property of the validation object a factor category is read from
FieldOf(category) ==
    CASE category = "device" -> "deviceSecurity"
      [] category = "application" -> "applicationSecurity"
      [] category = "environment" -> "environmentSecurity"
      [] category = "fileIntegrity" -> "fileIntegrity"
      [] category = "network" -> "networkSecurity"

\* C10: a category whose result carries a fault (error), is skipped or is
\* absent adds to neither the weighted sum nor the weight total: the report
\* is the one computed from the remaining categories alone, and no factor
\* and no weight of such a category is counted. This holds for the overall
\* assessment and for the device risk score.
C10_FaultedCategoryExcluded ==
    /\ scorePc = "assessed" =>
        /\ assessment = calculateOverallAssessment(RemainingValidation(validation))
        /\ \A i \in 1..Len(assessment.factors) :
              validation[FieldOf(assessment.factors[i].category)].kind = "ok"
        /\ Len(assessment.factors) =
              Cardinality({c \in DOMAIN validation : validation[c].kind = "ok"})
    /\ scorePc = "risk_scored" =>
        /\ riskAssessment = calculateRiskScore(RemainingAnalysis(analysis))
        /\ riskAssessment.maxScore =
              SumPoints({c \in DOMAIN analysis :
                            analysis[c].kind \notin {"absent", "error"}})

\* a report computed while one category is faulted, one is skipped and the
\* others are evaluated
C10_Witness ==
    /\ scorePc = "assessed"
    /\ validation.deviceSecurity.kind = "error"
    /\ validation.applicationSecurity.kind = "skipped"
    /\ validation.environmentSecurity.kind = "ok"
    /\ validation.environmentSecurity.high = 1
    /\ validation.fileIntegrity.kind = "absent"
    /\ validation.networkSecurity.kind = "ok"
    /\ Len(assessment.factors) = 2

(***************************************************************************)
(* Claims about the backup store                                           *)
(***************************************************************************)
\* the step is the continuation of restoreFromBackup after its readFile
IsRestoreFinish(c) == calls[c].pc = "restore_finish" /\ calls'[c].pc = "done"

\* C1: for a backup name in the registry, when the SHA-256 restoreFromBackup
\* computes from the local backup file differs from the checksum createBackup
\* recorded, the call returns {success: false, error: integrity failure} and
\* pushes nothing: every device file is as it was before the step.
C1_RestoreRefusesOnMismatch ==
    [][\A c \in Slots :
          (/\ IsRestoreFinish(c)
           /\ calls[c].content.exists
           /\ checksums[calls[c].backupName].present
           /\ Sha256(calls[c].content.content) #
                 checksums[calls[c].backupName].checksum) =>
             /\ calls'[c].result = Failure(IntegrityError)
             /\ device' = device]_vars

\* the backup file of "b1" was overwritten after createBackup, the restore
\* was refused and the tampered device file was left as it was
C1_Witness ==
    /\ calls["c1"].op = "restoreFromBackup"
    /\ calls["c1"].pc = "done"
    /\ calls["c1"].backupName = Name("user", 0)
    /\ calls["c1"].result = Failure(IntegrityError)
    /\ localFs[Name("user", 0)] = File(CorruptedBackup)
    /\ checksums[Name("user", 0)].checksum = Sha256(OriginalContent)
    /\ device["p1"] = File(<<RawLine("TAMPERED")>>)

\* C2: after createBackup(p, name) succeeded, whatever modifyConfig and
\* tamperWithFile did to p since, a restoreFromBackup(name) that succeeds
\* while nobody else has written the local backup file leaves p with exactly
\* the content it had when the backup was pulled.
C2_RoundTripRestoresSnapshot ==
    [][\A c \in Slots :
          (/\ IsRestoreFinish(c)
           /\ calls'[c].result.success
           /\ snapshot[calls[c].backupName].taken
           /\ calls[c].backupName \notin touched) =>
             device'[snapshot[calls[c].backupName].path] =
                File(snapshot[calls[c].backupName].content)]_vars

\* "b1" was taken of the original p1, p1 was then modified or tampered with
\* (it is in monitoredFiles), and the restore of "b1" succeeded
C2_Witness ==
    /\ calls["c1"].op = "restoreFromBackup"
    /\ calls["c1"].pc = "done"
    /\ calls["c1"].backupName = Name("user", 0)
    /\ calls["c1"].result.success
    /\ snapshot[Name("user", 0)] =
          [taken |-> TRUE, path |-> "p1", content |-> OriginalContent]
    /\ Name("user", 0) \notin touched
    /\ "p1" \in monitoredFiles
    /\ device["p1"] = File(OriginalContent)

\* the step is a read of restoreFromBackup: of the registry (the call) or of
\* the local backup file (the readFile)
IsRestoreRead(c) ==
    \/ /\ ncalls' = ncalls + 1
       /\ calls'[c] # calls[c]
       /\ calls'[c].op = "restoreFromBackup"
    \/ calls[c].pc = "restore_read" /\ calls'[c].pc = "restore_finish"

\* a createBackup under this name has overwritten the local file and has not
\* yet replaced the registry record
PartlyUpdated(fileName) ==
    \E o \in Slots :
        /\ calls[o].op = "createBackup"
        /\ calls[o].pc \in {"backup_read", "backup_finish"}
        /\ calls[o].backupName = fileName

\* C7: createBackup and restoreFromBackup on the same target are serialized:
\* no restore reads the registry record or the local backup file of a backup
\* that a createBackup in progress has only partly updated.
C7_RestoreNeverReadsPartialBackup ==
    [][\A c \in Slots :
          IsRestoreRead(c) => ~PartlyUpdated(calls'[c].backupName)]_vars

(***************************************************************************)
(* Claims about the reports                                                *)
(***************************************************************************)
SecurityLevels == {"excellent", "good", "acceptable", "poor", "critical"}
RiskLevels == {"critical", "high", "medium", "low", "minimal"}

\* C11: for every combination of evaluated, faulted, skipped and missing
\* categories the assessment returns a report that carries a score (a number,
\* not NaN) and a level of the scale: an overallScore, a securityLevel and a
\* riskLevel for the overall assessment, a score and a level for the device
\* risk assessment.
C11_ReportAlwaysReturned ==
    /\ scorePc = "assessed" =>
          /\ assessment.overallScore >= 0
          /\ assessment.securityLevel \in SecurityLevels
          /\ assessment.riskLevel \in RiskLevels
    /\ scorePc = "risk_scored" =>
          /\ riskAssessment.score >= 0
          /\ riskAssessment.level \in RiskLevels

\* a report computed while no category at all was evaluated: the fallback 50
C11_Witness ==
    /\ scorePc = "assessed"
    /\ validation.deviceSecurity.kind = "error"
    /\ validation.applicationSecurity.kind = "skipped"
    /\ validation.environmentSecurity.kind = "error"
    /\ validation.fileIntegrity.kind = "absent"
    /\ validation.networkSecurity.kind = "error"
    /\ assessment.factors = <<>>
    /\ assessment.overallScore = 50

\* the scores of the factors of a report, by category (-1: not evaluated)
FactorScore(fs, category) ==
    IF \E i \in 1..Len(fs) : fs[i].category = category
    THEN (CHOOSE f \in {fs[i] : i \in 1..Len(fs)} : f.category = category).score
    ELSE -1

\* passed and securityLevel follow the reported overallScore
PassedAndLevelOfReportedScore ==
    scorePc = "assessed" =>
        /\ assessment.passed = (assessment.overallScore >= 70)
        /\ assessment.securityLevel = getSecurityLevel(assessment.overallScore, 1)

\* the worked example of the specification with the network score the code
\* produces (calculateNetworkSecurityScore returns 80, never 100):
\* device 50, application 100, environment 90, file integrity 100, network 80
\* give 20 + 25 + 18 + 10 + 4 = 77, level acceptable, passed
WorkedExample ==
    (/\ scorePc = "assessed"
     /\ FactorScore(assessment.factors, "device") = 50
     /\ FactorScore(assessment.factors, "application") = 100
     /\ FactorScore(assessment.factors, "environment") = 90
     /\ FactorScore(assessment.factors, "fileIntegrity") = 100
     /\ FactorScore(assessment.factors, "network") = 80) =>
        /\ assessment.overallScore = 77
        /\ assessment.securityLevel = "acceptable"
        /\ assessment.passed

\* C12: in every report passed is true exactly when the reported overallScore
\* is at least 70 and securityLevel is the band of that same overallScore
\* (>= 90 excellent, >= 80 good, >= 70 acceptable, >= 60 poor, else critical),
\* as in the worked example of the specification.
C12_PassedAndLevelFollowOverallScore ==
    PassedAndLevelOfReportedScore /\ WorkedExample

Ran == lastRun.detector # "none"

\* a step in which a detection returns: neither the device nor the clock moves
IsDetection == evidence' = evidence /\ now' = now

\* C14: every detection result's confidence is the fraction (indicators
\* fired)/(indicators collected), lies in [0,1], and is 0 when no indicator
\* fired.
C14_ConfidenceIsFiredOverCollected ==
    Ran =>
        LET r == lastRun.result
        IN  /\ r.confidence[2] > 0
            /\ 0 <= r.confidence[1] /\ r.confidence[1] <= r.confidence[2]
            /\ r.confidence[1] * r.total = Cardinality(r.fired) * r.confidence[2]
            /\ (r.fired = {} => r.confidence[1] = 0)

\* the threshold of a category as a fraction: root 0.3, emulator and debug 0.5
Threshold(detector) == IF detector = "root" THEN <<3, 10>> ELSE <<1, 2>>

\* C15: the verdict of DeviceDetector's categories is detected = (fired/total >
\* threshold), strictly, with thresholds root 0.3, emulator 0.5, debug 0.5.
C15_VerdictIsConfidenceAboveThreshold ==
    lastRun.detector \in {"emulator", "root", "debug"} =>
        LET r == lastRun.result
            t == Threshold(lastRun.detector)
        IN  r.detected = (Cardinality(r.fired) * t[2] > t[1] * r.total)

\* the label the contract fixes for a category and a verdict
RiskLabel(detector, detected) ==
    IF ~detected THEN "low"
    ELSE IF detector \in {"root", "checker_root"} THEN "critical"
    ELSE IF detector \in {"emulator", "checker_emulator"} THEN "high"
    ELSE "medium"

\* C16: the risk label is a fixed function of category and verdict: positive
\* root is critical, positive emulator high, positive debug medium, every
\* negative detection low.
C16_RiskLabelFixedByCategoryAndVerdict ==
    Ran => lastRun.risk = RiskLabel(lastRun.detector, lastRun.result.detected)

Triple(run) == <<run.result.confidence, run.result.detected, run.risk>>

\* two detections of one category in a row, the evidence unchanged since the
\* first of them
IsRepeatedRun ==
    /\ IsDetection
    /\ Ran
    /\ lastRun'.detector = lastRun.detector
    /\ "run" \in settled

\* C17 as stated: two runs of one category over identical evidence return the
\* same confidence, verdict and risk label, whether the second is served from
\* the cache or recollected.
C17_RepeatedRunsAgree ==
    [][IsRepeatedRun => Triple(lastRun') = Triple(lastRun)]_vars

\* C17: two runs of one category over identical evidence return the same
\* confidence, verdict and risk label, whether the second is served from the
\* cache or recollected, provided the evidence has not changed since the
\* cached result the first run was served with was collected.
C17_RepeatedRunsAgreeOnCurrentCache ==
    [][(IsRepeatedRun /\ (lastRun.cached => CacheKey(lastRun.detector) \in settled))
            => Triple(lastRun') = Triple(lastRun)]_vars

\* a second emulator detection served from the cache that the first one
\* filled under the evidence the device still shows, an indicator fired
C17_Witness ==
    /\ lastRun.detector = "emulator"
    /\ lastRun.cached
    /\ {"run", "emulator_detection"} \subseteq settled
    /\ lastRun.result.fired # {}
    /\ lastRun.result = collectEmulator(evidence)

\* the indicators of the returned run that fired on a probe whose command
\* did not succeed
FiredOnFailure(e, run) ==
    CASE run.detector = "emulator" ->
            {k \in run.result.fired :
                \/ k = "buildFingerprint" /\ ~e.getprop.success
                \/ k = "hardwareFeatures" /\ ~e.features.success
                \/ k = "systemFiles" /\ \A f \in EmulatorFiles : ~e.files[f].success}
      [] run.detector = "debug" ->
            {k \in run.result.fired :
                k \in {"adbEnabled", "debuggable"} /\ ~e.getprop.success}
      [] run.detector = "checker_emulator" ->
            {k \in run.result.fired : ~e.getprop.success}
      [] run.detector = "checker_root" ->
            {k \in run.result.fired : ~e.root[k].success}
      [] OTHER -> {}

\* the probes after a failed one still ran: what they found is in the result
RemainingProbesRan(e, run) ==
    CASE run.detector = "emulator" ->
            /\ run.result.total = 7
            /\ (\E f \in EmulatorFiles : e.files[f] = Found)
                    => "systemFiles" \in run.result.fired
      [] run.detector = "checker_root" ->
            \A p \in RootProbes : e.root[p] = Found => p \in run.result.fired
      [] OTHER -> TRUE

\* C18: within one category's collection a probe whose shell command fails
\* yields detected = false for its indicator and the remaining probes still
\* run: a failure never makes an indicator fire and never aborts the batch.
C18_FailedProbeNeverFires ==
    [][(IsDetection /\ lastRun'.detector # "none" /\ ~lastRun'.cached)
            => /\ FiredOnFailure(evidence, lastRun') = {}
               /\ RemainingProbesRan(evidence, lastRun')]_vars

(***************************************************************************)
(* Claims about failures of createBackup and modifyConfig                  *)
(***************************************************************************)

\* the step in which the createBackup of call c gives up: its pull failed, or
\* the read of the pulled file failed
IsBackupFailure(c) ==
    \/ /\ calls[c].pc \in {"idle", "done"}
       /\ calls'[c] # calls[c]
       /\ calls'[c].pc = "done"
       /\ calls'[c].op \in {"createBackup", "modifyConfig"}
    \/ /\ calls[c].pc = "backup_finish"
       /\ calls'[c] # calls[c]
       /\ ~calls[c].content.exists

\* the step stores the record of call c: the file was pulled and read, and
\* the checksum is that of the content read, which is the content pulled
\* unless someone else wrote the file in between
StoresPulledRecord(c) ==
    LET call == calls[c]
        fileName == call.backupName
    IN  /\ call.pc = "backup_finish"
        /\ call.content.exists
        /\ \A n \in BackupNames \ {fileName} : checksums'[n] = checksums[n]
        /\ checksums'[fileName].present
        /\ checksums'[fileName].originalPath = call.remotePath
        /\ checksums'[fileName].checksum = Sha256(call.content.content)
        /\ fileName \notin touched => call.content.content = call.pulled

\* C19: createBackup is all-or-nothing on the registry: when the pull or the
\* read of the pulled file fails the call returns success: false and no
\* record is added or altered; a record is stored only together with the
\* checksum of the file that was pulled.
C19_BackupAllOrNothing ==
    [][/\ \A c \in Slots : IsBackupFailure(c) =>
              /\ checksums' = checksums
              /\ calls'[c].pc = "done"
              /\ ~calls'[c].result.success
       /\ checksums' # checksums => \E c \in Slots : StoresPulledRecord(c)]_vars

\* a createBackup over an existing record failed on the read of the pulled
\* file, and the record is the one of the earlier backup
C19_Witness ==
    /\ calls["c1"].op = "createBackup"
    /\ calls["c1"].pc = "done"
    /\ calls["c1"].result = Failure("ENOENT")
    /\ checksums[Name("user", 0)] =
            BackupRecord("p1", Name("user", 0), OriginalContent)

\* the errors of a modifyConfig that fails after its backup was created
ConfigFailures ==
    {"Failed to pull config file", "Unsupported config format",
     "Invalid JSON content", "adb push failed"}

\* the record is in the registry and the local file is the one it describes:
\* what restoreFromBackup verifies before it pushes
BackupIntact(store, registry, fileName, remotePath) ==
    /\ registry[fileName].present
    /\ registry[fileName].originalPath = remotePath
    /\ store[fileName].exists
    /\ IntegrityVerified(Sha256(store[fileName].content), registry[fileName].checksum)

\* C20: when modifyConfig fails after its backup was created (pull failure,
\* unsupported format, malformed JSON, push failure) the backup record is
\* still in the registry with an intact local file, and no step of the call
\* past the backup removes or alters the record or the file.
C20_FailedModifyKeepsBackup ==
    [][\A c \in Slots :
          (calls[c].op = "modifyConfig"
                /\ calls[c].pc \notin {"idle", "done", "backup_read"}
                /\ (calls[c].pc = "backup_finish" => calls[c].content.exists))
          => LET fileName == calls[c].backupName
             IN  /\ calls[c].pc # "backup_finish" =>
                        /\ checksums'[fileName] = checksums[fileName]
                        /\ localFs'[fileName] = localFs[fileName]
                 /\ (calls'[c].pc = "done" /\ ~calls'[c].result.success) =>
                        /\ calls'[c].result.error \in ConfigFailures
                        /\ BackupIntact(localFs', checksums', fileName,
                                        calls[c].remotePath)]_vars

\* a modifyConfig returned the failure of its push, its backup in place
C20_Witness ==
    /\ calls["c1"].op = "modifyConfig"
    /\ calls["c1"].pc = "done"
    /\ calls["c1"].result = Failure("adb push failed")
    /\ BackupIntact(localFs, checksums, calls["c1"].backupName, "p1")

(***************************************************************************)
(* Claims about faults, cancellation and frames of the monitoring          *)
(***************************************************************************)
PathsOf(m) == {mon[m].filePaths[i] : i \in 1..Len(mon[m].filePaths)}

\* C21: baseline capture does not abort on a missing or unreadable file:
\* every requested path has an entry in the result (a checksum, or the mark
\* of a missing file) and the remaining paths are still captured.
C21_BaselineCoversEveryPath ==
    \A m \in MonIds :
        mon[m].resolved =>
            \A p \in PathsOf(m) : MapIndex(initialChecksums[m], p, 1) # 0

\* C22: when the device shell is unreachable at a poll of a monitor session,
\* the session stops polling (and reports the changes so far with a fault).
C22_UnreachableStopsSession ==
    [][\A m \in MonIds :
          (IsPollStep(m) /\ ~shellUp) =>
              /\ ~mon'[m].intervalActive
              /\ mon'[m].tickPos = 0]_vars

\* C23: once the caller has signalled the cancellation, no new polling cycle
\* of that monitor call starts and its timers are released.
C23_CancelStopsPolling ==
    [][\A m \in MonIds :
          mon[m].cancelled =>
              /\ mon'[m].ticks = mon[m].ticks
              /\ ~mon'[m].intervalActive]_vars

\* C27: a poll of path p whose checksum read fails, or returns the baseline
\* entry of p, leaves the baseline and the changes list as they are; during
\* the monitoring a baseline entry changes only in the step that appends a
\* change for its path, and the poll of p leaves the entries of the other
\* paths alone.
C27_PollFrame ==
    [][\A m \in MonIds :
          /\ IsPollStep(m) =>
                LET k == mon[m].tickPos
                    entry == initialChecksums[m][k]
                    c == calculateRemoteFileChecksum(entry.filePath)
                IN  /\ (c = Null \/ c = entry.checksum) =>
                            /\ initialChecksums'[m] = initialChecksums[m]
                            /\ mon'[m].changes = mon[m].changes
                    /\ Len(initialChecksums'[m]) = Len(initialChecksums[m])
                    /\ \A j \in 1..Len(initialChecksums[m]) :
                            j # k => initialChecksums'[m][j] = initialChecksums[m][j]
          /\ (mon[m].st = "polling" /\ initialChecksums'[m] # initialChecksums[m]) =>
                /\ Len(mon'[m].changes) = Len(mon[m].changes) + 1
                /\ \A j \in 1..Len(initialChecksums[m]) :
                        initialChecksums'[m][j] # initialChecksums[m][j] =>
                            mon'[m].changes[Len(mon'[m].changes)].filePath
                                = initialChecksums[m][j].filePath]_vars

\* a tick has polled p1 and p2: the change of p2 is recorded and its entry
\* moved, the entry of p1 is the baseline it was
C27_Witness ==
    /\ mon["m1"].st = "polling"
    /\ mon["m1"].tickPos = 0
    /\ mon["m1"].ticks = 1
    /\ Len(mon["m1"].changes) = 1
    /\ mon["m1"].changes[1].filePath = "p2"
    /\ initialChecksums["m1"] =
          <<[filePath |-> "p1", checksum |-> Sha256(OriginalContent)],
            [filePath |-> "p2", checksum |-> Sha256(ChangedContent)]>>

\* C28: every record of a changes list has originalChecksum #
\* currentChecksum, and of two consecutive records of one path the later
\* starts from the checksum the earlier ended with: no transition is
\* reported twice.
C28_ChangesChain ==
    \A m \in MonIds :
        LET ch == mon[m].changes
        IN  /\ \A i \in 1..Len(ch) : ch[i].originalChecksum # ch[i].currentChecksum
            /\ \A i, j \in 1..Len(ch) :
                    (/\ i < j
                     /\ ch[i].filePath = ch[j].filePath
                     /\ \A k \in (i + 1)..(j - 1) : ch[k].filePath # ch[i].filePath)
                    => ch[j].originalChecksum = ch[i].currentChecksum

\* two transitions of p1 recorded around one of p2
C28_Witness ==
    /\ Len(mon["m1"].changes) = 3
    /\ mon["m1"].changes[1].filePath = "p1"
    /\ mon["m1"].changes[2].filePath = "p2"
    /\ mon["m1"].changes[3].filePath = "p1"
    /\ mon["m1"].changes[3].originalChecksum = mon["m1"].changes[1].currentChecksum

(***************************************************************************)
(* Claims about the result cache                                          *)
(***************************************************************************)
\* the step is a call of DeviceDetector.detectEmulator or detectRoot
IsCachedDetection ==
    /\ IsDetection
    /\ lastRun'.detector \in {"emulator", "root"}
    /\ (lastRun' # lastRun \/ detectionCache' # detectionCache)

Expired(entry) == ~entry.present \/ now - entry.timestamp >= CacheTimeout

Mutators == {"modifyConfig", "tamperWithFile"}

\* the step is taken by call c of modifyConfig or tamperWithFile
IsMutatorStep(c) ==
    /\ calls'[c] # calls[c]
    /\ (calls[c].op \in Mutators \/ ncalls' # ncalls)
    /\ calls'[c].op \in Mutators

\* C25: modifyConfig and tamperWithFile write to the target path only after
\* the same call has created a backup of that path (the registry holds the
\* record of the call's backup name for that path, and the snapshot was
\* pulled from it), and they write to no other path; when the backup cannot
\* be created the call returns success:false and the device is as it was.
C25_NoWriteWithoutBackup ==
    [][\A c \in Slots : IsMutatorStep(c) =>
          /\ device' # device =>
                LET call == calls[c]
                IN  /\ call.op \in Mutators
                    /\ checksums'[call.backupName].present
                    /\ checksums'[call.backupName].originalPath = call.remotePath
                    /\ snapshot'[call.backupName].taken
                    /\ snapshot'[call.backupName].path = call.remotePath
                    /\ snapshot'[call.backupName].content = call.pulled
                    /\ \A q \in Paths \ {call.remotePath} : device'[q] = device[q]
          /\ ncalls' # ncalls =>
                IF calls'[c].pc = "done"
                THEN /\ ~calls'[c].result.success
                     /\ device' = device
                     /\ checksums' = checksums
                ELSE PullOk(calls'[c].remotePath)
          /\ (calls[c].pc = "backup_finish" /\ ~calls[c].content.exists) =>
                /\ calls'[c].pc = "done"
                /\ ~calls'[c].result.success
                /\ device' = device]_vars

\* tamperWithFile has returned success: the target is tampered and the
\* registry holds the backup the call made of it
C25_Witness ==
    /\ calls["c1"].op = "tamperWithFile"
    /\ calls["c1"].pc = "done"
    /\ calls["c1"].result.success
    /\ device["p1"] = File(<<RawLine("TAMPERED")>>)
    /\ checksums[calls["c1"].result.backupName].originalPath = "p1"
    /\ snapshot[calls["c1"].result.backupName].content = OriginalContent

(***************************************************************************)
(* Claims about the registry of backups                                   *)
(***************************************************************************)
\* the step is the entry of a restoreFromBackup call in slot c
IsRestoreEntry(c) ==
    /\ ncalls' # ncalls
    /\ calls'[c] # calls[c]
    /\ calls'[c].op = "restoreFromBackup"

\* the step is the return of a cleanup call in slot c
IsCleanupReturn(c) ==
    /\ calls[c].op = "cleanup"
    /\ calls[c].pc # "done"
    /\ calls'[c].pc = "done"

\* C24: restoreFromBackup with a name the registry does not hold returns
\* {success:false, error} in the step that looks the name up and pushes
\* nothing to the device; a cleanup() that returns success leaves no name in
\* the registry, so this holds for every name created before it.
C24_UnknownBackupIsRefused ==
    [][\A c \in Slots :
          /\ (IsRestoreEntry(c) /\ ~checksums[calls'[c].backupName].present) =>
                /\ calls'[c].pc = "done"
                /\ ~calls'[c].result.success
                /\ calls'[c].result.error = "Backup not found"
                /\ device' = device
          /\ (IsCleanupReturn(c) /\ calls'[c].result.success) =>
                \A n \in BackupNames : ~checksums'[n].present]_vars

\* a backup was created, cleanup() removed it, and the restore of its name
\* was refused
C24_Witness ==
    /\ calls["c1"].op = "restoreFromBackup"
    /\ calls["c1"].pc = "done"
    /\ calls["c1"].result.error = "Backup not found"
    /\ snapshot[calls["c1"].backupName].taken
    /\ ~localFs[calls["c1"].backupName].exists
    /\ \A n \in BackupNames : ~checksums[n].present

(***************************************************************************)
(* Claims about concurrent edits of config files                          *)
(***************************************************************************)
\* the step is the push of modifyConfig call c, and the push succeeds
IsConfigPush(c) ==
    /\ calls[c].pc = "temp_push"
    /\ calls'[c].pc = "temp_remove"
    /\ calls'[c].pushOk

\* the step is the return of modifyConfig call c with success
IsConfigSuccess(c) ==
    /\ calls[c].op = "modifyConfig"
    /\ calls[c].pc = "config_finish"
    /\ calls'[c].pc = "done"
    /\ calls'[c].result.success

\* C29: two modifyConfig calls running concurrently on different paths do
\* not interfere: each pushes to its own path the edit of the content of
\* that path, and the backup name each returns is registered for its own
\* path and names a file holding the content it pulled from that path, also
\* when both calls take their names from one value of Date.now().
C29_ConcurrentConfigsIsolated ==
    [][\A c \in Slots :
          /\ IsConfigPush(c) =>
                device'[ConfigTarget(c)].content =
                    modifyPropertiesFile(device[ConfigTarget(c)].content,
                                         ConfigKey, ConfigValue)
          /\ IsConfigSuccess(c) =>
                LET b == calls'[c].result.backupName
                IN  /\ checksums[b].present
                    /\ checksums[b].originalPath = ConfigTarget(c)
                    /\ localFs[b] = File(calls[c].pulled)]_vars

\* C30: when modifyConfig(p, ...) returns success with backup name b, the
\* backup b holds exactly the content the edit was applied to, so that
\* restoreFromBackup(b), which pushes the file of b, returns p to that
\* content, also when another actor wrote p between the pull of the backup
\* and the pull of the edit.
C30_BackupIsEditedContent ==
    [][\A c \in Slots : IsConfigSuccess(c) =>
          LET b == calls'[c].result.backupName
          IN  /\ checksums[b].present
              /\ checksums[b].originalPath = calls[c].remotePath
              /\ calls[c].content.exists
              /\ localFs[b] = File(calls[c].content.content)]_vars

====
